---- MODULE Spec2Model ----
(***************************************************************************)
(* FastCDC content-defined chunking (kalbasit/fastcdc).                    *)
(*                                                                         *)
(* The module models                                                       *)
(*   - options.go : config, validate, computeMasks, the With... options    *)
(*   - core.go    : ChunkerCore, NewChunkerCore, Reset, FindBoundary       *)
(*   - Chunk, Chunker, NewChunker, fillBuffer, Next, Reset (package        *)
(*     fastcdc, in chunker_fuzz_test.go from line 112)                     *)
(*   - pool.go    : ChunkerPool, NewChunkerPool, Get, Put over sync.Pool   *)
(* Sizes are small, the fingerprint keeps its low FingerprintBits bits     *)
(* (uint64 in the code), and the byte alphabet is Bytes.                   *)
(***************************************************************************)
EXTENDS Integers, Sequences, FiniteSets, TLC

VARIABLES
    input,      \* the bytes of the stream the sources deliver
    chunker,    \* the Chunker instances: id -> Chunker struct
    source,     \* the io.Reader bound to each Chunker: id -> reader state
    ret,        \* what the last Chunker.Next of each instance returned
    hist,       \* the (Offset, Length, Hash) of the chunks each instance returned
    eofs,       \* how many times Next of each instance returned io.EOF
    core,       \* a standalone ChunkerCore driven through FindBoundary/Reset
    prevCall,   \* the call on core before the last one
    lastCall,   \* the last call on core: its window, pre-state and results
    ncalls,     \* number of FindBoundary calls made on core
    opts,       \* the options each Chunker was constructed with: id -> options
    pool,       \* the ChunkerPool: its options and the content of its sync.Pool
    held,       \* the Chunker each goroutine got from the pool: goroutine -> id, 0 for none
    resets,     \* how many times each Chunker was rebound by Reset: id -> count
    made,       \* what a constructor call returned: constructor -> instance and error
    corePool,   \* the ChunkerCorePool: its options and the content of its sync.Pool
    cores,      \* the ChunkerCore instances the core pool constructed: id -> ChunkerCore
    heldCore    \* the ChunkerCore the caller got from the core pool: id, 0 for none

vars == <<input, chunker, source, ret, hist, eofs, core, prevCall, lastCall, ncalls,
          opts, pool, held, resets, made, corePool, cores, heldCore>>

streamVars == <<input, chunker, source, ret, hist, eofs>>
scanVars == <<core, prevCall, lastCall, ncalls>>
corePoolVars == <<corePool, cores, heldCore>>
poolVars == <<opts, pool, held, resets, made, corePoolVars>>

----------------------------------------------------------------------------
(* Bounds of the model *)

MaxInputLen == 8        \* longest stream
MaxWideLen == 11        \* longest stream chunked with the wide sizes
MaxPairLen == 5         \* longest stream when two chunkers read it
MaxIOLen == 4           \* longest stream read from a failing source
MaxResetLen == 3        \* longest stream before and after a Chunker.Reset
MaxResets == 1          \* Reset calls on one chunker
MaxPoolLen == 2         \* longest stream chunked with a pooled chunker
MaxIsoLen == 3          \* longest stream of chunkers that run side by side
MaxEditPrefix == 2      \* longest part of a stream in front of a shared tail
MaxEditTail == 3        \* longest tail two streams share
MaxWindow == 3          \* longest window handed to FindBoundary directly
MaxScanCalls == 3       \* FindBoundary calls on the standalone core
MaxLongPre == 2         \* longest window in front of a long window
MaxLongWindow == 9      \* length of the long windows handed to FindBoundary
MaxEOFCalls == 2        \* Next calls that are made after (and including) io.EOF
MaxNormLevel == 2       \* normalization levels 0..MaxNormLevel
FingerprintBits == 8    \* bits kept of the uint64 fingerprint
SizeBits == 9           \* bits kept of the uint32 sizes
MaxDeriveMin == 4       \* largest small minSize the masks are derived for
MaxDeriveTarget == 20   \* largest small targetSize the masks are derived for
MaxLiveLen == 7         \* longest stream chunked to its end
MaxFragLen == 6         \* longest stream read with different fragmentations
MaxCores == 2           \* ChunkerCore instances a ChunkerCorePool constructs
MaxCoreWindow == 2      \* longest window handed to a pooled ChunkerCore

(* Program constants *)
Unroll == 8             \* the unrolling factor of the scan loops
\* the default sizes, in units of 16 KiB
DefaultMinSize == 1     \* 16 * 1024
DefaultTargetSize == 4  \* 64 * 1024
DefaultMaxSize == 16    \* 256 * 1024
DefaultBufferSize == 32 \* 512 * 1024
DefaultNormLevel == 2
MaxLevel == 8           \* the highest normalization level

Bytes == {0, 1}
Seeds == {0, 1}
\* <<minSize, targetSize, maxSize>>
Sizes == {<<1, 2, 3>>, <<2, 4, 6>>}
WideSizes == {<<1, 9, 11>>}
\* sizes with a region of Unroll bytes or more for each of the two masks
LongSizes == {<<1, 9, 11>>, <<1, 2, 11>>}
SmallSizes == {<<1, 2, 3>>}

SeqsUpTo(n) == UNION {[1..k -> Bytes] : k \in 0..n}

Min(a, b) == IF a < b THEN a ELSE b
Take(s, n) == SubSeq(s, 1, n)
Drop(s, n) == SubSeq(s, n + 1, Len(s))

----------------------------------------------------------------------------
(* Machine arithmetic *)

RECURSIVE Pow2(_)
Pow2(n) == IF n = 0 THEN 1 ELSE 2 * Pow2(n - 1)

\* the fingerprint word holds values below WordMod (2^64 in the code)
WordMod == Pow2(FingerprintBits)

\* x << n on the fingerprint word
Shl(x, n) == (x * Pow2(n)) % WordMod
\* x >> n
Shr(x, n) == x \div Pow2(n)
\* x + y on the fingerprint word
AddWord(x, y) == (x + y) % WordMod

\* the sizes are uint32: values below SizeMod (2^32 in the code)
SizeMod == Pow2(SizeBits)

\* x - y and x + y on uint32
SubSize(x, y) == (x - y) % SizeMod
AddSize(x, y) == (x + y) % SizeMod

RECURSIVE BitAnd(_, _)
BitAnd(x, y) ==
    IF x = 0 \/ y = 0 THEN 0
    ELSE (x % 2) * (y % 2) + 2 * BitAnd(x \div 2, y \div 2)

----------------------------------------------------------------------------
(* Errors *)

NoErr == "nil"
EOF == "io.EOF"
ErrUnexpectedEOF == "io.ErrUnexpectedEOF"
ErrInvalidMinSize == "ErrInvalidMinSize"
ErrInvalidTargetSize == "ErrInvalidTargetSize"
ErrTargetSizeTooSmall == "ErrTargetSizeTooSmall"
ErrInvalidMaxSize == "ErrInvalidMaxSize"
ErrMaxSizeTooSmall == "ErrMaxSizeTooSmall"
ErrInvalidNormLevel == "ErrInvalidNormLevel"
ErrInvalidBufferSize == "ErrInvalidBufferSize"
\* an error of the byte source that is neither io.EOF nor io.ErrUnexpectedEOF
ErrIO == "source error"

----------------------------------------------------------------------------
(* options.go *)

\* (mutant) validate without the check of maxSize against targetSize
validateErrNoMax(c) ==
    IF c.minSize = 0 THEN ErrInvalidMinSize
    ELSE IF c.targetSize <= c.minSize THEN ErrTargetSizeTooSmall
    ELSE IF c.normLevel > 8 THEN ErrInvalidNormLevel
    ELSE NoErr

\* (mutant) validate with the errors of its two size comparisons exchanged
validateErrExchanged(c) ==
    IF c.minSize = 0 THEN ErrInvalidMinSize
    ELSE IF c.targetSize <= c.minSize THEN ErrMaxSizeTooSmall
    ELSE IF c.maxSize <= c.targetSize THEN ErrTargetSizeTooSmall
    ELSE IF c.normLevel > 8 THEN ErrInvalidNormLevel
    ELSE NoErr

\* (mutant) validate without the check of targetSize against minSize
validateErrNoTarget(c) ==
    IF c.minSize = 0 THEN ErrInvalidMinSize
    ELSE IF c.maxSize <= c.targetSize THEN ErrMaxSizeTooSmall
    ELSE IF c.normLevel > 8 THEN ErrInvalidNormLevel
    ELSE NoErr

\* validate: the first failing check, else nil
validateErr(c) ==
    IF c.minSize = 0 THEN ErrInvalidMinSize
    ELSE IF c.targetSize <= c.minSize THEN ErrTargetSizeTooSmall
    ELSE IF c.maxSize <= c.targetSize THEN ErrMaxSizeTooSmall
    ELSE IF c.normLevel > 8 THEN ErrInvalidNormLevel
    ELSE NoErr

\* (mutant) validate without the adjustment of the buffer size
validateNoFloor(c) == c

\* validate: the configuration it leaves (buffer size raised to maxSize)
validate(c) ==
    IF validateErr(c) # NoErr THEN c
    ELSE IF c.bufferSize < c.maxSize THEN [c EXCEPT !.bufferSize = c.maxSize]
    ELSE c

RECURSIVE bitsOfLength(_)
\* (mutant) the bit length of tmp, not the bit length minus one
bitsOfLength(tmp) == IF tmp > 0 THEN 1 + bitsOfLength(Shr(tmp, 1)) ELSE 0

RECURSIVE bitsOf(_)
\* for tmp > 1 { tmp >>= 1; bits++ }
bitsOf(tmp) == IF tmp > 1 THEN 1 + bitsOf(Shr(tmp, 1)) ELSE 0

computeMasks(c) ==
    LET bits == bitsOf(c.targetSize)
        normRange == SubSize(c.targetSize, c.minSize)
    IN [maskL |-> Pow2(bits) - 1,
        maskS |-> IF bits > 0 THEN Pow2(bits - 1) - 1 ELSE 0,
        normSize |-> AddSize(c.minSize, Shr(normRange, c.normLevel)),
        bits |-> bits]

\* The options of a constructor call are a record o: field minSize stands for
\* WithMinSize(o.minSize), and so on; an option that is not passed is a field
\* that is not there.
Has(o, f) == f \in DOMAIN o

\* The option functions in the order of their definitions; a call that does
\* not say otherwise passes its options in this order.
OptionNames == <<"minSize", "targetSize", "maxSize", "normLevel", "seed", "bufferSize">>

\* the order in which the options of a call are passed
Order(o) == IF Has(o, "order") THEN o.order ELSE OptionNames

\* the error the option function of field f returns for the value v
optionErr(f, v) ==
    CASE f = "minSize" -> IF v = 0 THEN ErrInvalidMinSize ELSE NoErr
      [] f = "targetSize" -> IF v = 0 THEN ErrInvalidTargetSize ELSE NoErr
      [] f = "maxSize" -> IF v = 0 THEN ErrInvalidMaxSize ELSE NoErr
      [] f = "normLevel" -> IF v > 8 THEN ErrInvalidNormLevel ELSE NoErr
      [] f = "seed" -> NoErr
      [] f = "bufferSize" -> IF v <= 0 THEN ErrInvalidBufferSize ELSE NoErr

RECURSIVE firstErr(_, _)
\* for _, opt := range opts { if err := opt(cfg); err != nil { return nil, err } }
firstErr(o, fs) ==
    IF fs = <<>> THEN NoErr
    ELSE IF Has(o, fs[1]) /\ optionErr(fs[1], o[fs[1]]) # NoErr
    THEN optionErr(fs[1], o[fs[1]])
    ELSE firstErr(o, Tail(fs))

\* the options that are passed, applied in the order of the call: the first
\* error, else nil
optionsErr(o) == firstErr(o, Order(o))

\* the config the options leave of cfg
applyOptions(cfg, o) ==
    [f \in DOMAIN cfg |-> IF Has(o, f) THEN o[f] ELSE cfg[f]]

\* (mutant) a config literal whose buffer size is that of one default chunk
chunkerDefaultsOneMax ==
    [minSize |-> DefaultMinSize, targetSize |-> DefaultTargetSize,
     maxSize |-> DefaultMaxSize, normLevel |-> DefaultNormLevel, seed |-> 0,
     bufferSize |-> DefaultMaxSize]

\* the config literal NewChunker starts from
chunkerDefaults ==
    [minSize |-> DefaultMinSize, targetSize |-> DefaultTargetSize,
     maxSize |-> DefaultMaxSize, normLevel |-> DefaultNormLevel, seed |-> 0,
     bufferSize |-> DefaultBufferSize]

\* defaultConfig(): the config NewChunkerCore starts from
defaultConfig ==
    [minSize |-> DefaultMinSize, targetSize |-> DefaultTargetSize,
     maxSize |-> DefaultMaxSize, normLevel |-> DefaultNormLevel, seed |-> 0,
     bufferSize |-> 2 * DefaultMaxSize]

----------------------------------------------------------------------------
(* The Gear table *)

\* 256 constants derived from the seed; the model keeps the entries of Bytes.
generateTable(seed) ==
    IF seed = 0 THEN [b \in Bytes |-> IF b = 0 THEN 6 ELSE 3]
    ELSE [b \in Bytes |-> IF b = 0 THEN 5 ELSE 4]

----------------------------------------------------------------------------
(* core.go *)

\* NewChunkerCore: the instance it returns when the error is nil
NewChunkerCore(o) ==
    LET cfg == validate(applyOptions(defaultConfig, o))
        m == computeMasks(cfg)
    IN [table |-> generateTable(cfg.seed),
        fingerprint |-> 0,
        minSize |-> cfg.minSize,
        normSize |-> m.normSize,
        maxSize |-> cfg.maxSize,
        maskS |-> m.maskS,
        maskL |-> m.maskL,
        bits |-> m.bits,
        normLevel |-> cfg.normLevel,
        position |-> 0]

\* the ChunkerCore value NewChunker embeds, built from a validated config
newChunkerCoreWithConfig(cfg) ==
    LET m == computeMasks(cfg)
    IN [table |-> generateTable(cfg.seed),
        fingerprint |-> 0,
        minSize |-> cfg.minSize,
        normSize |-> m.normSize,
        maxSize |-> cfg.maxSize,
        maskS |-> m.maskS,
        maskL |-> m.maskL,
        bits |-> m.bits,
        normLevel |-> cfg.normLevel,
        position |-> 0]

\* NewChunkerCore: the error it returns
NewChunkerCoreErr(o) ==
    IF optionsErr(o) # NoErr THEN optionsErr(o)
    ELSE validateErr(applyOptions(defaultConfig, o))

\* (mutant) a Reset that assigns the zero value and keeps the table
CoreResetZeroValue(c) ==
    [c EXCEPT !.fingerprint = 0, !.position = 0, !.minSize = 0, !.normSize = 0,
              !.maxSize = 0, !.maskS = 0, !.maskL = 0, !.bits = 0, !.normLevel = 0]

\* ChunkerCore.Reset
CoreReset(c) == [c EXCEPT !.fingerprint = 0, !.position = 0]

\* fp = (fp << 1) + c.table[b]
GearStep(table, fp, b) == AddWord(Shl(fp, 1), table[b])

\* (mutant) no skipping: hashing starts at the first byte of the chunk
SkipLenNone(pos, minSize, dataLen) == 0

\* skip := minSize - pos; if skip > dataLen { skip = dataLen }
SkipLen(pos, minSize, dataLen) == Min(minSize - pos, dataLen)

\* end := limit - pos; if end > dataLen { end = dataLen }
RegionEnd(limit, pos, dataLen) == Min(limit - pos, dataLen)

\* (mutant) a boundary return that also clears the fingerprint
StoreFoundCleared(c, fp) == [c EXCEPT !.fingerprint = 0, !.position = 0]

\* a boundary return inside a scan loop: store the fingerprint, position 0
StoreFound(c, fp) == [c EXCEPT !.fingerprint = fp, !.position = 0]

\* (mutant) an exhausted-window return that forgets the fingerprint
StoreNotFoundNoFp(c, fp, pos) == [c EXCEPT !.position = pos]

\* the exhausted-window return: save the state for the next call
StoreNotFound(c, fp, pos) == [c EXCEPT !.fingerprint = fp, !.position = pos]

\* (mutant) no forced cut
HardLimitNever(pos, maxSize) == FALSE

\* (mutant) a forced cut only beyond maxSize
HardLimitBeyond(pos, maxSize) == pos > maxSize

\* Phase 3: if pos >= maxSize
HardLimit(pos, maxSize) == pos >= maxSize

RECURSIVE Body8(_, _, _, _, _, _)
\* The k-th (0-based) of the eight copies in the body of an unrolled loop, at
\* loop index i: hashes data[i+k] and tests it; n is the count i+k+1 it returns.
Body8(table, mask, data, i, k, fp) ==
    IF k = Unroll THEN [found |-> FALSE, n |-> i + Unroll, fp |-> fp]
    ELSE LET fp2 == GearStep(table, fp, data[i + k + 1])
         IN IF BitAnd(fp2, mask) = 0
            THEN [found |-> TRUE, n |-> i + k + 1, fp |-> fp2]
            ELSE Body8(table, mask, data, i, k + 1, fp2)

RECURSIVE LoopTail(_, _, _, _, _, _)
\* for ; i < end; i++
LoopTail(table, mask, data, end, i, fp) ==
    IF i < end
    THEN LET fp2 == GearStep(table, fp, data[i + 1])
         IN IF BitAnd(fp2, mask) = 0
            THEN [found |-> TRUE, n |-> i + 1, fp |-> fp2]
            ELSE LoopTail(table, mask, data, end, i + 1, fp2)
    ELSE [found |-> FALSE, n |-> end, fp |-> fp]

RECURSIVE LoopUnrolled(_, _, _, _, _, _)
\* for ; i+8 <= end; i += 8, followed by the loop over the remaining bytes
LoopUnrolled(table, mask, data, end, i, fp) ==
    IF i + Unroll <= end
    THEN LET r == Body8(table, mask, data, i, 0, fp)
         IN IF r.found THEN r
            ELSE LoopUnrolled(table, mask, data, end, i + Unroll, r.fp)
    ELSE LoopTail(table, mask, data, end, i, fp)

\* Phase 0: skip to the minimum size without hashing. s = [fp, pos, data].
Phase0(c, s) ==
    IF s.pos < c.minSize
    THEN LET skip == SkipLen(s.pos, c.minSize, Len(s.data))
         IN [s EXCEPT !.pos = s.pos + skip, !.data = Drop(s.data, skip)]
    ELSE s

\* Phases 1 and 2: scan [pos, limit) with mask. Returns whether a boundary was
\* hit, the value returned for it, the fingerprint, and the locals afterwards.
Phase(c, limit, mask, s) ==
    IF s.pos < limit /\ Len(s.data) > 0
    THEN LET end == RegionEnd(limit, s.pos, Len(s.data))
             r == LoopUnrolled(c.table, mask, s.data, end, 0, s.fp)
         IN IF r.found
            THEN [found |-> TRUE, boundary |-> s.pos + r.n, s |-> [s EXCEPT !.fp = r.fp]]
            ELSE [found |-> FALSE, boundary |-> 0,
                  s |-> [fp |-> r.fp, pos |-> s.pos + end, data |-> Drop(s.data, end)]]
    ELSE [found |-> FALSE, boundary |-> 0, s |-> s]

\* ChunkerCore.FindBoundary: the core afterwards and the three results
FindBoundary(c, data) ==
    IF Len(data) = 0
    THEN [core |-> c, boundary |-> 0, hash |-> c.fingerprint, found |-> FALSE]
    ELSE LET s0 == [fp |-> c.fingerprint, pos |-> c.position, data |-> data]
             s1 == Phase0(c, s0)
             p1 == Phase(c, c.normSize, c.maskS, s1)
             p2 == Phase(c, c.maxSize, c.maskL, p1.s)
         IN IF p1.found
            THEN [core |-> StoreFound(c, p1.s.fp), boundary |-> p1.boundary,
                  hash |-> p1.s.fp, found |-> TRUE]
            ELSE IF p2.found
            THEN [core |-> StoreFound(c, p2.s.fp), boundary |-> p2.boundary,
                  hash |-> p2.s.fp, found |-> TRUE]
            ELSE IF HardLimit(p2.s.pos, c.maxSize)
            THEN [core |-> StoreFound(c, p2.s.fp), boundary |-> p2.s.pos,
                  hash |-> p2.s.fp, found |-> TRUE]
            ELSE [core |-> StoreNotFound(c, p2.s.fp, p2.s.pos), boundary |-> p2.s.pos,
                  hash |-> p2.s.fp, found |-> FALSE]

----------------------------------------------------------------------------
(* The byte source: an io.Reader over input *)

\* A reader over data that hands out at most frag bytes per Read and reports
\* io.EOF either together with the last bytes (eofWithData) or on the next Read.
\* When fails is set, the Read issued when failAt bytes have been delivered
\* fails once with failErr and no bytes. lastErr is the error of the last
\* Read, nreads the number of Reads issued.
NewReader(data, frag, eofWithData, fails, failAt, failErr) ==
    [data |-> data, pos |-> 0, frag |-> frag, eofWithData |-> eofWithData,
     sawEOF |-> FALSE, fails |-> fails, failAt |-> failAt, failErr |-> failErr,
     failed |-> FALSE, lastErr |-> NoErr, nreads |-> 0]

\* a reader that does not fail
NewSource(data, frag, eofWithData) ==
    NewReader(data, frag, eofWithData, FALSE, 0, NoErr)

\* a reader whose Read at failAt fails once with failErr
NewFailingSource(data, frag, eofWithData, failAt, failErr) ==
    NewReader(data, frag, eofWithData, TRUE, failAt, failErr)

\* Reader.Read(p) with len(p) = k: the reader afterwards, the bytes, the error
Read(src, k) ==
    IF src.fails /\ ~src.failed /\ src.pos = src.failAt
    THEN [src |-> [src EXCEPT !.failed = TRUE, !.lastErr = src.failErr,
                              !.nreads = src.nreads + 1],
          data |-> <<>>,
          err |-> src.failErr]
    ELSE LET left == Len(src.data) - src.pos
             n == Min(Min(k, src.frag), left)
             atEnd == left = 0 \/ (src.eofWithData /\ n = left)
             err == IF atEnd THEN EOF ELSE NoErr
         IN [src |-> [src EXCEPT !.pos = src.pos + n, !.sawEOF = src.sawEOF \/ atEnd,
                                 !.lastErr = err, !.nreads = src.nreads + 1],
             data |-> SubSeq(src.data, src.pos + 1, src.pos + n),
             err |-> err]

RECURSIVE ReadAtLeast(_, _, _, _)
\* for n < min && err == nil { nn, err = r.Read(buf[n:]); n += nn }
ReadAtLeast(src, want, got, err) ==
    IF Len(got) < want /\ err = NoErr
    THEN LET r == Read(src, want - Len(got))
         IN ReadAtLeast(r.src, want, got \o r.data, r.err)
    ELSE [src |-> src, data |-> got,
          err |-> IF Len(got) >= want THEN NoErr
                  ELSE IF Len(got) > 0 /\ err = EOF THEN ErrUnexpectedEOF
                  ELSE err]

\* (mutant) a single r.Read(buf) in place of io.ReadFull
ReadOnce(src, want) == Read(src, want)

\* io.ReadFull(r, buf) with len(buf) = want
ReadFull(src, want) == ReadAtLeast(src, want, <<>>, NoErr)

----------------------------------------------------------------------------
(* chunker.go *)

NoChunk == [Offset |-> 0, Length |-> 0, Hash |-> 0, Data |-> <<>>]

\* NewChunker: the error it returns
NewChunkerErr(o) ==
    IF optionsErr(o) # NoErr THEN optionsErr(o)
    ELSE validateErr(applyOptions(chunkerDefaults, o))

\* (mutant) every chunker reads from one shared reader
NewChunkerSharedReader(r, o) ==
    LET cfg == validate(applyOptions(chunkerDefaults, o))
    IN [core |-> newChunkerCoreWithConfig(cfg),
        reader |-> 1,
        buf |-> [k \in 1..cfg.bufferSize |-> 0],
        buflen |-> cfg.bufferSize,
        cursor |-> cfg.bufferSize,
        offset |-> 0,
        eof |-> FALSE]

\* NewChunker: the instance it returns when the error is nil. buf is the
\* backing array (cap(buf) = Len(buf)), buflen is len(c.buf).
NewChunker(r, o) ==
    LET cfg == validate(applyOptions(chunkerDefaults, o))
    IN [core |-> newChunkerCoreWithConfig(cfg),
        reader |-> r,
        buf |-> [k \in 1..cfg.bufferSize |-> 0],
        buflen |-> cfg.bufferSize,
        cursor |-> cfg.bufferSize,
        offset |-> 0,
        eof |-> FALSE]

\* (mutant) the unconsumed bytes are not moved to the front
CompactNone(buf, n, cursor) == buf

\* copy(c.buf[:n], c.buf[c.cursor:])
Compact(buf, n, cursor) ==
    [k \in 1..Len(buf) |-> IF k <= n THEN buf[cursor + k] ELSE buf[k]]

\* the bytes a read stored at buf[n:]
Store(buf, n, data) ==
    [k \in 1..Len(buf) |-> IF k > n /\ k <= n + Len(data) THEN data[k - n] ELSE buf[k]]

\* (mutant) the bytes of the last read are cut off at end of source
EOFLenDropsTail(n, m) == n

\* (mutant) the buffer view is cut one byte too long at end of source
EOFLenOffByOne(n, m) == n + m + 1

\* c.buf = c.buf[:n+m]
EOFLen(n, m) == n + m

\* (mutant) only io.EOF counts as the end of the source
IsEOFOnly(err) == err = EOF

\* errors.Is(err, io.EOF) || errors.Is(err, io.ErrUnexpectedEOF)
IsEOF(err) == err = EOF \/ err = ErrUnexpectedEOF

\* Chunker.fillBuffer: the chunker and its reader afterwards, and the error
fillBuffer(c, src) ==
    LET n == c.buflen - c.cursor
    IN IF n >= c.core.maxSize
       THEN [c |-> c, src |-> src, err |-> NoErr]
       ELSE LET c1 == [c EXCEPT !.buf = Compact(c.buf, n, c.cursor), !.cursor = 0]
            IN IF c1.eof
               THEN [c |-> [c1 EXCEPT !.buflen = n], src |-> src, err |-> NoErr]
               ELSE LET r == ReadFull(src, c1.buflen - n)
                        c2 == [c1 EXCEPT !.buf = Store(c1.buf, n, r.data)]
                    IN IF IsEOF(r.err)
                       THEN [c |-> [c2 EXCEPT !.buflen = EOFLen(n, Len(r.data)), !.eof = TRUE],
                             src |-> r.src, err |-> NoErr]
                       ELSE [c |-> c2, src |-> r.src, err |-> r.err]

\* (mutant) the end of Next without the reset of the scanner
AdvanceNoReset(c, fbCore, boundary) ==
    [c EXCEPT !.cursor = c.cursor + boundary,
              !.offset = c.offset + boundary,
              !.core = fbCore]

\* (mutant) the end of Next without the move of the cursor
AdvanceKeepsCursor(c, fbCore, boundary) ==
    [c EXCEPT !.offset = c.offset + boundary,
              !.core = CoreReset(fbCore)]

\* the cursor/offset update and scanner reset at the end of Next
Advance(c, fbCore, boundary) ==
    [c EXCEPT !.cursor = c.cursor + boundary,
              !.offset = c.offset + boundary,
              !.core = CoreReset(fbCore)]

\* (mutant) a Reset that does not restore the buffer to its full capacity
ChunkerResetKeepsLen(c, r) ==
    [c EXCEPT !.reader = r, !.core = CoreReset(c.core), !.cursor = c.buflen,
              !.offset = 0, !.eof = FALSE]

\* (mutant) a Reset that leaves the end-of-source flag set
ChunkerResetKeepsEOF(c, r) ==
    [c EXCEPT !.reader = r, !.core = CoreReset(c.core), !.buflen = Len(c.buf),
              !.cursor = Len(c.buf), !.offset = 0]

\* Chunker.Reset(r); cap(c.buf) is Len(c.buf)
ChunkerReset(c, r) ==
    [c EXCEPT !.reader = r, !.core = CoreReset(c.core), !.buflen = Len(c.buf),
              !.cursor = Len(c.buf), !.offset = 0, !.eof = FALSE]

\* Chunker.Next: the chunker and its reader afterwards, the chunk and the error
ChunkerNext(c, src) ==
    LET f == fillBuffer(c, src)
    IN IF f.err # NoErr
       THEN [c |-> f.c, src |-> f.src, chunk |-> NoChunk, err |-> f.err]
       ELSE IF f.c.buflen = 0
       THEN [c |-> f.c, src |-> f.src, chunk |-> NoChunk, err |-> EOF]
       ELSE LET available == SubSeq(f.c.buf, f.c.cursor + 1, f.c.buflen)
                fb == FindBoundary(f.c.core, available)
                boundary == IF ~fb.found THEN Len(available) ELSE fb.boundary
            IN [c |-> Advance(f.c, fb.core, boundary),
                src |-> f.src,
                chunk |-> [Offset |-> f.c.offset, Length |-> boundary,
                           Hash |-> fb.hash, Data |-> Take(available, boundary)],
                err |-> NoErr]

----------------------------------------------------------------------------
(* pool.go *)

\* the nil reader, and the nil a sync.Pool returns
Nil == 0

\* NewChunkerPool: the error it returns (that of the test chunker)
NewChunkerPoolErr(o) == NewChunkerErr(o)

\* NewChunkerPool: the pool it returns when the error is nil; free is the
\* content of its sync.Pool
NewChunkerPool(o) == [opts |-> o, free |-> {}]

\* NewChunkerCorePool: the error it returns (that of the test core)
NewChunkerCorePoolErr(o) == NewChunkerCoreErr(o)

\* NewChunkerCorePool: the pool it returns when the error is nil
NewChunkerCorePool(o) == [opts |-> o, free |-> {}]

\* (mutant) a pool that hands out only pooled items, none when it is empty
syncPoolGetWaits(free) == {[v |-> x, free |-> free \ {x}] : x \in free}

\* (mutant) a pool that keeps the item it hands out
syncPoolGetKeeps(free) ==
    {[v |-> Nil, free |-> free]} \cup {[v |-> x, free |-> free] : x \in free}

\* p.pool.Get(): the outcomes of sync.Pool.Get without a New function: one of
\* the pooled items, removed from the pool, or nil (Get may treat the pool as
\* empty)
syncPoolGet(free) ==
    {[v |-> Nil, free |-> free]} \cup {[v |-> x, free |-> free \ {x}] : x \in free}

\* (mutant) a Put that leaves the reader bound
PutKeepsReader(c) == c

\* ChunkerPool.Put: c.reader = nil
PutClearsReader(c) == [c EXCEPT !.reader = Nil]

----------------------------------------------------------------------------
(* Configurations and inputs of the model *)

\* sizes: <<minSize, targetSize, maxSize>>; bufs: 0 for WithBufferSize(1),
\* 1 for WithBufferSize(2 * maxSize)
OptionsOf(sizes, seeds, bufs) ==
    {[minSize |-> t[1], targetSize |-> t[2], maxSize |-> t[3],
      normLevel |-> nl, seed |-> sd,
      bufferSize |-> IF b = 0 THEN 1 ELSE 2 * t[3]] :
        t \in sizes, nl \in 0..MaxNormLevel, sd \in seeds, b \in bufs}

\* how a source delivers its bytes
ReadStyles == {<<1, FALSE>>, <<64, TRUE>>}

\* the errors a failing Read returns
FailKinds == {ErrIO, ErrUnexpectedEOF}

\* no ChunkerPool has been constructed
NoPool == [opts |-> <<>>, free |-> {}]

NoCall == [op |-> "none", pre |-> <<>>, data |-> <<>>, boundary |-> 0, hash |-> 0,
           found |-> FALSE]

----------------------------------------------------------------------------
(* The standalone scanner: FindBoundary and Reset on one ChunkerCore *)

InitScan ==
    /\ \E o \in OptionsOf(Sizes, {0}, {0}) :
          /\ NewChunkerCoreErr(o) = NoErr
          /\ core = NewChunkerCore(o)
    /\ prevCall = NoCall
    /\ lastCall = NoCall
    /\ ncalls = 0
    /\ input = <<>>
    /\ chunker = <<>>
    /\ source = <<>>
    /\ ret = <<>>
    /\ hist = <<>>
    /\ eofs = <<>>
    /\ opts = <<>>
    /\ pool = NoPool
    /\ held = <<>>
    /\ corePool = NoPool
    /\ cores = <<>>
    /\ heldCore = 0
    /\ resets = <<>>
    /\ made = <<>>

ScanFindBoundary(w) ==
    /\ ncalls < MaxScanCalls
    /\ \E r \in {FindBoundary(core, w)} :
          /\ core' = r.core
          /\ lastCall' = [op |-> "FindBoundary", pre |-> core, data |-> w,
                          boundary |-> r.boundary, hash |-> r.hash, found |-> r.found]
    /\ prevCall' = lastCall
    /\ ncalls' = ncalls + 1
    /\ UNCHANGED <<streamVars, poolVars>>

ScanReset ==
    /\ core' = CoreReset(core)
    /\ lastCall' = [NoCall EXCEPT !.op = "Reset", !.pre = core]
    /\ prevCall' = lastCall
    /\ UNCHANGED <<ncalls, streamVars, poolVars>>

NextScan ==
    \/ \E w \in SeqsUpTo(MaxWindow) : ScanFindBoundary(w)
    \/ ScanReset

SpecScan == InitScan /\ [][NextScan]_vars

----------------------------------------------------------------------------
(* The standalone scanner on long windows: a short window, then a long one *)

InitLong ==
    /\ \E o \in OptionsOf(LongSizes, {0}, {0}) :
          /\ NewChunkerCoreErr(o) = NoErr
          /\ core = NewChunkerCore(o)
    /\ prevCall = NoCall
    /\ lastCall = NoCall
    /\ ncalls = 0
    /\ input = <<>>
    /\ chunker = <<>>
    /\ source = <<>>
    /\ ret = <<>>
    /\ hist = <<>>
    /\ eofs = <<>>
    /\ opts = <<>>
    /\ pool = NoPool
    /\ held = <<>>
    /\ corePool = NoPool
    /\ cores = <<>>
    /\ heldCore = 0
    /\ resets = <<>>
    /\ made = <<>>

\* the first call, on a short window
LongFirst(w) ==
    /\ ncalls = 0
    /\ ScanFindBoundary(w)

\* the second call, on a long window
LongSecond(w) ==
    /\ ncalls = 1
    /\ ScanFindBoundary(w)

NextLong ==
    \/ \E w \in SeqsUpTo(MaxLongPre) : LongFirst(w)
    \/ \E w \in [1..MaxLongWindow -> Bytes] : LongSecond(w)

SpecLong == InitLong /\ [][NextLong]_vars

----------------------------------------------------------------------------
(* Streaming: Chunker.Next on chunkers reading input *)

\* nothing returned yet
NoReturn == [kind |-> "none", chunk |-> NoChunk, err |-> NoErr, srcErr |-> NoErr]

\* the readers over data that do not fail
PlainReaders(data) == {NewSource(data, st[1], st[2]) : st \in ReadStyles}

\* the readers over data of which one Read fails
FailingReaders(data) ==
    {NewFailingSource(data, st[1], st[2], at, e) :
        st \in ReadStyles, at \in 0..Len(data), e \in FailKinds}

\* the readers over data of the kinds asked for
ReadersOf(kinds, data) ==
    (IF "plain" \in kinds THEN PlainReaders(data) ELSE {})
        \cup (IF "failing" \in kinds THEN FailingReaders(data) ELSE {})

\* chunkers ids, constructed with the same options, each reading input through
\* a reader of its own of one of the kinds
InitReading(ids, maxLen, options, kinds) ==
    /\ input \in SeqsUpTo(maxLen)
    /\ \E o \in options :
          /\ NewChunkerErr(o) = NoErr
          /\ chunker = [i \in ids |-> NewChunker(i, o)]
          /\ core = NewChunkerCore(o)
          /\ opts = [i \in ids |-> o]
    /\ source \in [ids -> ReadersOf(kinds, input)]
    /\ ret = [i \in ids |-> NoReturn]
    /\ hist = [i \in ids |-> <<>>]
    /\ eofs = [i \in ids |-> 0]
    /\ prevCall = NoCall
    /\ lastCall = NoCall
    /\ ncalls = 0
    /\ pool = NoPool
    /\ held = <<>>
    /\ corePool = NoPool
    /\ cores = <<>>
    /\ heldCore = 0
    /\ resets = [i \in ids |-> 0]
    /\ made = <<>>

InitChunkers(ids, maxLen, options) == InitReading(ids, maxLen, options, {"plain"})

StreamNext(i) ==
    /\ eofs[i] < MaxEOFCalls
    /\ \E r \in {ChunkerNext(chunker[i], source[chunker[i].reader])} :
          /\ chunker' = [chunker EXCEPT ![i] = r.c]
          /\ source' = [source EXCEPT ![chunker[i].reader] = r.src]
          /\ ret' = [ret EXCEPT ![i] =
                       [kind |-> IF r.err = NoErr THEN "chunk"
                                 ELSE IF r.err = EOF THEN "eof" ELSE "err",
                        chunk |-> r.chunk, err |-> r.err,
                        srcErr |-> IF r.src.nreads = source[chunker[i].reader].nreads
                                   THEN NoErr ELSE r.src.lastErr]]
          /\ hist' = [hist EXCEPT ![i] =
                       IF r.err = NoErr
                       THEN Append(@, [Offset |-> r.chunk.Offset,
                                       Length |-> r.chunk.Length,
                                       Hash |-> r.chunk.Hash])
                       ELSE @]
          /\ eofs' = [eofs EXCEPT ![i] = IF r.err = EOF THEN @ + 1 ELSE @]
    /\ UNCHANGED <<input, scanVars, poolVars>>

InitStream ==
    \/ InitChunkers({1}, MaxInputLen, OptionsOf(Sizes, Seeds, {0, 1}))
    \/ InitChunkers({1}, MaxWideLen, OptionsOf(WideSizes, {0}, {0}))

NextStream == \E i \in DOMAIN chunker : StreamNext(i)

Spec == InitStream /\ [][NextStream]_vars

InitPair == InitChunkers({1, 2}, MaxPairLen, OptionsOf(Sizes, Seeds, {0, 1}))

SpecPair == InitPair /\ [][NextStream]_vars

\* one chunker reading from a source of which one Read fails; the caller goes
\* on calling Next after the error
InitIO == InitReading({1}, MaxIOLen, OptionsOf(Sizes, {0}, {0, 1}), {"failing"})

SpecIO == InitIO /\ [][NextStream]_vars

----------------------------------------------------------------------------
(* Reuse: Chunker.Reset rebinds a chunker to a new stream *)

\* Chunker.Reset(r) on chunker i, with r a reader over a new stream
StreamReset(i, r) ==
    /\ resets[i] < MaxResets
    /\ chunker' = [chunker EXCEPT ![i] = ChunkerReset(@, chunker[i].reader)]
    /\ source' = [source EXCEPT ![chunker[i].reader] = r]
    /\ input' = r.data
    /\ ret' = [ret EXCEPT ![i] = [NoReturn EXCEPT !.kind = "reset"]]
    /\ hist' = [hist EXCEPT ![i] = <<>>]
    /\ eofs' = [eofs EXCEPT ![i] = 0]
    /\ resets' = [resets EXCEPT ![i] = @ + 1]
    /\ UNCHANGED <<scanVars, opts, pool, held, made, corePoolVars>>

InitReset ==
    InitReading({1}, MaxResetLen, OptionsOf(SmallSizes, {0}, {0, 1}), {"plain", "failing"})

NextReset ==
    \/ NextStream
    \/ \E i \in DOMAIN chunker, d \in SeqsUpTo(MaxResetLen) :
          \E r \in PlainReaders(d) : StreamReset(i, r)

SpecReset == InitReset /\ [][NextReset]_vars

----------------------------------------------------------------------------
(* Side by side: chunkers with different options on different streams *)

\* the options of the chunkers 1 and 2
IsoOptions ==
    <<[minSize |-> 1, targetSize |-> 2, maxSize |-> 3, normLevel |-> 0, seed |-> 0,
       bufferSize |-> 1],
      [minSize |-> 2, targetSize |-> 4, maxSize |-> 6, normLevel |-> 1, seed |-> 1,
       bufferSize |-> 12]>>

\* one goroutine per chunker; the steps of NextStream interleave their Next calls
InitIso ==
    /\ opts = IsoOptions
    /\ \A i \in DOMAIN opts : NewChunkerErr(opts[i]) = NoErr
    /\ chunker = [i \in DOMAIN opts |-> NewChunker(i, opts[i])]
    /\ \E d1, d2 \in SeqsUpTo(MaxIsoLen) :
          source = <<NewSource(d1, 1, FALSE), NewSource(d2, 64, TRUE)>>
    /\ ret = [i \in DOMAIN opts |-> NoReturn]
    /\ hist = [i \in DOMAIN opts |-> <<>>]
    /\ eofs = [i \in DOMAIN opts |-> 0]
    /\ resets = [i \in DOMAIN opts |-> 0]
    /\ made = <<>>
    /\ input = <<>>
    /\ core = NewChunkerCore(opts[1])
    /\ prevCall = NoCall
    /\ lastCall = NoCall
    /\ ncalls = 0
    /\ pool = NoPool
    /\ held = <<>>
    /\ corePool = NoPool
    /\ cores = <<>>
    /\ heldCore = 0

SpecIso == InitIso /\ [][NextStream]_vars

----------------------------------------------------------------------------
(* Edits: two streams that share a tail, chunked one after the other *)

\* the configurations the two runs are made with: a buffer of maxSize bytes,
\* and one of twice maxSize with a normalized region
EditOptions ==
    {[minSize |-> 1, targetSize |-> 2, maxSize |-> 3, normLevel |-> 1, seed |-> 0,
      bufferSize |-> 1],
     [minSize |-> 1, targetSize |-> 3, maxSize |-> 4, normLevel |-> 0, seed |-> 0,
      bufferSize |-> 8]}

\* chunker 1 reads pre1 + tail, chunker 2 reads pre2 + tail, with the same options
InitEdit ==
    /\ \E o \in EditOptions :
          /\ NewChunkerErr(o) = NoErr
          /\ chunker = [i \in {1, 2} |-> NewChunker(i, o)]
          /\ core = NewChunkerCore(o)
          /\ opts = [i \in {1, 2} |-> o]
    /\ \E pre1, pre2 \in SeqsUpTo(MaxEditPrefix), tail \in SeqsUpTo(MaxEditTail) :
          source = <<NewSource(pre1 \o tail, 1, FALSE), NewSource(pre2 \o tail, 64, TRUE)>>
    /\ ret = [i \in {1, 2} |-> NoReturn]
    /\ hist = [i \in {1, 2} |-> <<>>]
    /\ eofs = [i \in {1, 2} |-> 0]
    /\ resets = [i \in {1, 2} |-> 0]
    /\ made = <<>>
    /\ input = <<>>
    /\ prevCall = NoCall
    /\ lastCall = NoCall
    /\ ncalls = 0
    /\ pool = NoPool
    /\ held = <<>>
    /\ corePool = NoPool
    /\ cores = <<>>
    /\ heldCore = 0

\* the caller chunks the first stream to io.EOF, then the second
EditNext(i) ==
    /\ i = 2 => eofs[1] >= 1
    /\ StreamNext(i)

NextEdit == \E i \in DOMAIN chunker : EditNext(i)

SpecEdit == InitEdit /\ [][NextEdit]_vars

----------------------------------------------------------------------------
(* Fragmentation: one stream read in different pieces into different buffers *)

\* how the second source delivers its bytes: <<bytes per Read, io.EOF together
\* with the last bytes>>
FragStyles == {<<1, FALSE>>, <<2, FALSE>>, <<2, TRUE>>, <<64, FALSE>>, <<64, TRUE>>}

\* WithBufferSize of the second chunker: below maxSize (raised to maxSize),
\* maxSize + 1, and twice maxSize
FragBuffers(o) == {1, o.maxSize + 1, 2 * o.maxSize}

\* chunker 1 reads input a byte per Read into a buffer of maxSize bytes;
\* chunker 2 has the same sizes, level and seed, another buffer and reader
InitFrag ==
    /\ input \in SeqsUpTo(MaxFragLen)
    /\ \E o \in OptionsOf(Sizes, {0}, {0}) :
          \E b \in FragBuffers(o) :
              /\ opts = <<o, [o EXCEPT !.bufferSize = b]>>
              /\ core = NewChunkerCore(o)
    /\ \A i \in DOMAIN opts : NewChunkerErr(opts[i]) = NoErr
    /\ chunker = [i \in DOMAIN opts |-> NewChunker(i, opts[i])]
    /\ \E st \in FragStyles :
          source = <<NewSource(input, 1, FALSE), NewSource(input, st[1], st[2])>>
    /\ ret = [i \in DOMAIN opts |-> NoReturn]
    /\ hist = [i \in DOMAIN opts |-> <<>>]
    /\ eofs = [i \in DOMAIN opts |-> 0]
    /\ resets = [i \in DOMAIN opts |-> 0]
    /\ made = <<>>
    /\ prevCall = NoCall
    /\ lastCall = NoCall
    /\ ncalls = 0
    /\ pool = NoPool
    /\ held = <<>>
    /\ corePool = NoPool
    /\ cores = <<>>
    /\ heldCore = 0

\* the caller chunks the stream with chunker 1 to io.EOF, then with chunker 2
NextFrag == \E i \in DOMAIN chunker : EditNext(i)

SpecFrag == InitFrag /\ [][NextFrag]_vars

----------------------------------------------------------------------------
(* To the end: a caller that goes on calling Next *)

InitLive == InitChunkers({1}, MaxLiveLen, OptionsOf(Sizes, {0}, {0, 1}))

\* for { chunk, err := c.Next(); if err == io.EOF { break } }: the caller calls
\* Next again as long as it has not returned io.EOF
LiveNext(i) ==
    /\ eofs[i] = 0
    /\ StreamNext(i)

NextLive == \E i \in DOMAIN chunker : LiveNext(i)

\* The caller's loop goes on: weak fairness of NextLive, WF_vars(NextLive), with
\* the enabling condition of NextLive written out. Next is a call that returns
\* and the loop calls it as long as it has not returned io.EOF, so NextLive is
\* enabled exactly in the states in which some eofs[i] is 0.
LoopFairness ==
    \/ []<>(\A i \in DOMAIN chunker : eofs[i] >= 1)
    \/ []<><<NextLive>>_vars

SpecLive == InitLive /\ [][NextLive]_vars /\ LoopFairness

----------------------------------------------------------------------------
(* Construction: the four constructors on options of every kind *)

\* a field f that is passed with one of the values vs, or is not passed
Maybe(f, vs) == {<<>>} \cup {f :> v : v \in vs}

\* the options in the reverse of the order of OptionNames
ReversedNames == [k \in 1..Len(OptionNames) |-> OptionNames[Len(OptionNames) + 1 - k]]

\* option lists: valid ones, and ones that break each rule of the options and
\* of validate, around the default sizes, passed in either order
ConfigOptions ==
    {a @@ b @@ c @@ d @@ e @@ f :
        a \in Maybe("minSize", {0, 1, 4}),
        b \in Maybe("targetSize", {0, 1, 4, 5}),
        c \in Maybe("maxSize", {0, 4, 5, 17, 33}),
        d \in Maybe("normLevel", {0, 8, 9}),
        e \in Maybe("bufferSize", {-1, 0, 1, 5, 40}),
        f \in Maybe("order", {ReversedNames})}

Constructors == {"NewChunker", "NewChunkerCore", "NewChunkerPool", "NewChunkerCorePool"}

\* what a constructor returns: the instance or nil, and the error
Returned(err, instance) ==
    [err |-> err, instance |-> IF err = NoErr THEN <<instance>> ELSE <<>>]

\* no constructor has been called yet; the call will pass one of options
InitOptions(options) ==
    /\ \E o \in options : opts = <<o>>
    /\ made = <<>>
    /\ chunker = <<>>
    /\ source = <<>>
    /\ ret = <<>>
    /\ hist = <<>>
    /\ eofs = <<>>
    /\ resets = <<>>
    /\ input = <<>>
    /\ core = <<>>
    /\ prevCall = NoCall
    /\ lastCall = NoCall
    /\ ncalls = 0
    /\ pool = NoPool
    /\ held = <<>>
    /\ corePool = NoPool
    /\ cores = <<>>
    /\ heldCore = 0

InitConfig == InitOptions(ConfigOptions)

\* a constructor called with the options opts[1]
Construct(name, err, instance) ==
    /\ made = <<>>
    /\ made' = (name :> Returned(err, instance))
    /\ UNCHANGED <<streamVars, scanVars, opts, pool, held, resets, corePoolVars>>

ConstructChunker ==
    Construct("NewChunker", NewChunkerErr(opts[1]), NewChunker(Nil, opts[1]))

ConstructCore ==
    Construct("NewChunkerCore", NewChunkerCoreErr(opts[1]), NewChunkerCore(opts[1]))

ConstructPool ==
    Construct("NewChunkerPool", NewChunkerPoolErr(opts[1]), NewChunkerPool(opts[1]))

ConstructCorePool ==
    Construct("NewChunkerCorePool", NewChunkerCorePoolErr(opts[1]),
              NewChunkerCorePool(opts[1]))

NextConfig ==
    \/ ConstructChunker
    \/ ConstructCore
    \/ ConstructPool
    \/ ConstructCorePool

SpecConfig == InitConfig /\ [][NextConfig]_vars

----------------------------------------------------------------------------
(* Derivation: the masks and the threshold NewChunkerCore derives *)

\* target sizes around 2^8, where a shift by the highest level leaves a bit
LargeTargets == {255, 256, 257, 300}

\* WithMinSize, WithTargetSize, WithMaxSize and WithNormalization over small
\* sizes and the large targets, every level and one level above the highest;
\* maxSize is one above targetSize
DeriveOptions ==
    {[minSize |-> a, targetSize |-> b, maxSize |-> b + 1, normLevel |-> l] :
        a \in 1..MaxDeriveMin,
        b \in (2..MaxDeriveTarget) \cup LargeTargets,
        l \in 0..(MaxLevel + 1)}

InitDerive == InitOptions(DeriveOptions)

NextDerive ==
    \/ ConstructCore
    \/ ConstructCorePool

SpecDerive == InitDerive /\ [][NextDerive]_vars

----------------------------------------------------------------------------
(* The pool: goroutines that Get a chunker, call Next and Put it back *)

Goroutines == {1, 2}

\* the reader of a goroutine that is not in a cycle
NoReader == NewSource(<<>>, 1, FALSE)

\* the Chunker instances a pool may construct: one per goroutine
MaxInstances == Cardinality(Goroutines)

\* WithMinSize(1), WithTargetSize(2), WithMaxSize(3), WithNormalization(0),
\* WithSeed(0), WithBufferSize(1)
PoolOptions ==
    {[minSize |-> 1, targetSize |-> 2, maxSize |-> 3, normLevel |-> 0, seed |-> 0,
      bufferSize |-> 1]}

InitPool ==
    /\ \E o \in PoolOptions :
          /\ NewChunkerPoolErr(o) = NoErr
          /\ pool = NewChunkerPool(o)
          /\ opts = [i \in 1..MaxInstances |-> o]
          /\ core = NewChunkerCore(o)
    /\ held = [g \in Goroutines |-> 0]
    /\ corePool = NoPool
    /\ cores = <<>>
    /\ heldCore = 0
    /\ chunker = <<>>
    /\ source = [g \in Goroutines |-> NoReader]
    /\ ret = [i \in 1..MaxInstances |-> NoReturn]
    /\ hist = [i \in 1..MaxInstances |-> <<>>]
    /\ eofs = [i \in 1..MaxInstances |-> 0]
    /\ resets = [i \in 1..MaxInstances |-> 0]
    /\ made = <<>>
    /\ input = <<>>
    /\ prevCall = NoCall
    /\ lastCall = NoCall
    /\ ncalls = 0

\* ChunkerPool.Get(r) by goroutine g, whose reader r is source[g]
PoolGet(g, r) ==
    /\ held[g] = 0
    /\ \E got \in syncPoolGet(pool.free) :
          /\ IF got.v # Nil
             THEN /\ chunker' = [chunker EXCEPT ![got.v] = ChunkerReset(@, g)]
                  /\ held' = [held EXCEPT ![g] = got.v]
             ELSE /\ Len(chunker) < MaxInstances
                  /\ chunker' = Append(chunker, NewChunker(g, pool.opts))
                  /\ held' = [held EXCEPT ![g] = Len(chunker) + 1]
          /\ pool' = [pool EXCEPT !.free = got.free]
    /\ source' = [source EXCEPT ![g] = r]
    /\ ret' = [ret EXCEPT ![held'[g]] = [NoReturn EXCEPT !.kind = "get"]]
    /\ hist' = [hist EXCEPT ![held'[g]] = <<>>]
    /\ eofs' = [eofs EXCEPT ![held'[g]] = 0]
    /\ UNCHANGED <<input, scanVars, opts, resets, made, corePoolVars>>

\* ChunkerPool.Put(c) by the goroutine that holds c
PoolPut(g) ==
    /\ g \in DOMAIN held
    /\ held[g] # 0
    /\ chunker' = [chunker EXCEPT ![held[g]] = PutClearsReader(@)]
    /\ pool' = [pool EXCEPT !.free = @ \cup {held[g]}]
    /\ held' = [held EXCEPT ![g] = 0]
    /\ source' = [source EXCEPT ![g] = NoReader]
    /\ ret' = [ret EXCEPT ![held[g]] = NoReturn]
    /\ hist' = [hist EXCEPT ![held[g]] = <<>>]
    /\ eofs' = [eofs EXCEPT ![held[g]] = 0]
    /\ UNCHANGED <<input, scanVars, opts, resets, made, corePoolVars>>

\* Next on the chunker goroutine g holds
PoolNext(g) ==
    /\ g \in DOMAIN held
    /\ held[g] # 0
    /\ StreamNext(held[g])

\* the readers the goroutines pass to Get: one byte per Read, io.EOF after
\* the last byte
PoolReaders == {NewSource(d, 1, FALSE) : d \in SeqsUpTo(MaxPoolLen)}

NextPool ==
    \E g \in Goroutines :
        \/ \E r \in PoolReaders : PoolGet(g, r)
        \/ PoolNext(g)
        \/ PoolPut(g)

SpecPool == InitPool /\ [][NextPool]_vars

----------------------------------------------------------------------------
(* Both pools: a caller that works a pooled Chunker and a pooled ChunkerCore *)

\* a ChunkerCorePool has been constructed, and no ChunkerPool
InitCorePool ==
    /\ \E o \in PoolOptions :
          /\ NewChunkerCorePoolErr(o) = NoErr
          /\ corePool = NewChunkerCorePool(o)
          /\ core = NewChunkerCore(o)
    /\ cores = <<>>
    /\ heldCore = 0
    /\ pool = NoPool
    /\ opts = <<>>
    /\ held = <<>>
    /\ chunker = <<>>
    /\ source = <<>>
    /\ ret = <<>>
    /\ hist = <<>>
    /\ eofs = <<>>
    /\ resets = <<>>
    /\ made = <<>>
    /\ input = <<>>
    /\ prevCall = NoCall
    /\ lastCall = NoCall
    /\ ncalls = 0

\* the program constructed a ChunkerPool or a ChunkerCorePool
InitBoth == InitPool \/ InitCorePool

\* ChunkerCorePool.Get()
CorePoolGet ==
    /\ corePool # NoPool
    /\ heldCore = 0
    /\ \E got \in syncPoolGet(corePool.free) :
          /\ IF got.v # Nil
             THEN /\ cores' = [cores EXCEPT ![got.v] = CoreReset(@)]
                  /\ heldCore' = got.v
             ELSE /\ Len(cores) < MaxCores
                  /\ cores' = Append(cores, NewChunkerCore(corePool.opts))
                  /\ heldCore' = Len(cores) + 1
          /\ corePool' = [corePool EXCEPT !.free = got.free]
    /\ UNCHANGED <<streamVars, scanVars, opts, pool, held, resets, made>>

\* ChunkerCorePool.Put(c) of the core the caller holds
CorePoolPut ==
    /\ heldCore # 0
    /\ cores' = [cores EXCEPT ![heldCore] = CoreReset(@)]
    /\ corePool' = [corePool EXCEPT !.free = @ \cup {heldCore}]
    /\ heldCore' = 0
    /\ UNCHANGED <<streamVars, scanVars, opts, pool, held, resets, made>>

\* FindBoundary(w) on the core the caller holds
CoreFindBoundary(w) ==
    /\ heldCore # 0
    /\ ncalls < MaxScanCalls
    /\ cores' = [cores EXCEPT ![heldCore] = FindBoundary(@, w).core]
    /\ ncalls' = ncalls + 1
    /\ UNCHANGED <<streamVars, core, prevCall, lastCall, opts, pool, held, resets, made,
                   corePool, heldCore>>

\* Reset() on the core the caller holds
CoreResetCall ==
    /\ heldCore # 0
    /\ cores' = [cores EXCEPT ![heldCore] = CoreReset(@)]
    /\ UNCHANGED <<streamVars, scanVars, opts, pool, held, resets, made, corePool, heldCore>>

\* Chunker.Reset(r) on the chunker goroutine g holds
PoolReset(g, r) ==
    /\ g \in DOMAIN held
    /\ held[g] # 0
    /\ StreamReset(held[g], r)

\* the readers the caller passes to Get and to Reset: a stream of one chunk
\* and a stream of two
BothReaders == {NewSource(d, 1, FALSE) : d \in {<<0, 1>>, <<1, 0, 1>>}}

\* the caller of the ChunkerPool is goroutine 1
NextBoth ==
    \/ pool # NoPool /\ \E r \in BothReaders : PoolGet(1, r)
    \/ PoolNext(1)
    \/ \E r \in BothReaders : PoolReset(1, r)
    \/ PoolPut(1)
    \/ CorePoolGet
    \/ \E w \in SeqsUpTo(MaxCoreWindow) : CoreFindBoundary(w)
    \/ CoreResetCall
    \/ CorePoolPut

SpecBoth == InitBoth /\ [][NextBoth]_vars

----------------------------------------------------------------------------
(* Both APIs: a program that chunks a stream with a Chunker to io.EOF and then
   drives a ChunkerCore of the same options through FindBoundary and Reset *)

\* the stream of the program
PositionStream == <<0, 1, 1, 0>>

\* the readers of the program: one that hands out a byte per Read, and one
\* whose second Read fails
PositionReaders ==
    {NewSource(PositionStream, 1, FALSE),
     NewFailingSource(PositionStream, 1, FALSE, 1, ErrIO)}

InitPosition ==
    /\ \E o \in OptionsOf(Sizes, {0}, {0}) :
          /\ NewChunkerErr(o) = NoErr
          /\ NewChunkerCoreErr(o) = NoErr
          /\ chunker = <<NewChunker(1, o)>>
          /\ core = NewChunkerCore(o)
          /\ opts = <<o>>
    /\ \E r \in PositionReaders :
          /\ source = <<r>>
          /\ input = r.data
    /\ ret = <<NoReturn>>
    /\ hist = <<<<>>>>
    /\ eofs = <<0>>
    /\ resets = <<0>>
    /\ prevCall = NoCall
    /\ lastCall = NoCall
    /\ ncalls = 0
    /\ pool = NoPool
    /\ held = <<>>
    /\ corePool = NoPool
    /\ cores = <<>>
    /\ heldCore = 0
    /\ made = <<>>

\* Next, until it returns io.EOF
PositionNext ==
    /\ eofs[1] = 0
    /\ StreamNext(1)

\* FindBoundary(w) on the ChunkerCore, once the stream is chunked
PositionFindBoundary(w) ==
    /\ eofs[1] >= 1
    /\ ScanFindBoundary(w)

\* Reset() on the ChunkerCore, once the stream is chunked
PositionReset ==
    /\ eofs[1] >= 1
    /\ ScanReset

NextPosition ==
    \/ PositionNext
    \/ \E w \in SeqsUpTo(MaxWindow) : PositionFindBoundary(w)
    \/ PositionReset

SpecPosition == InitPosition /\ [][NextPosition]_vars

----------------------------------------------------------------------------
(* Properties of Chunker.Next *)

\* input[off : off+len], with -1 where the range leaves the input
InputSlice(off, len) ==
    [k \in 1..len |-> IF off + k <= Len(input) THEN input[off + k] ELSE -1]

RECURSIVE SumLengths(_)
SumLengths(h) == IF h = <<>> THEN 0 ELSE h[1].Length + SumLengths(Tail(h))

Contiguous(h) ==
    \A k \in 1..Len(h) :
        h[k].Offset = IF k = 1 THEN 0 ELSE h[k - 1].Offset + h[k - 1].Length

\* the number of Next calls instance i has answered
NextCalls(i) == Len(hist[i]) + eofs[i]

\* C1 (Partition): the first chunk has Offset 0, each later chunk starts where
\* the previous one ended, a returned chunk's Data is input[Offset:Offset+Length],
\* and when Next returns io.EOF the Lengths sum to len(input).
C1_Partition ==
    \A i \in DOMAIN chunker :
        /\ Contiguous(hist[i])
        /\ ret[i].kind = "chunk" =>
              ret[i].chunk.Data = InputSlice(ret[i].chunk.Offset, ret[i].chunk.Length)
        /\ ret[i].kind = "eof" => SumLengths(hist[i]) = Len(input)

\* a stream read one byte per Read has been chunked into three or more chunks
C1_Witness ==
    /\ ret[1].kind = "eof"
    /\ Len(hist[1]) >= 3
    /\ source[1].frag = 1
    /\ \E k \in 1..Len(hist[1]) : hist[1][k].Length # hist[1][1].Length

\* C2 (Upper bound): every returned chunk, the last one included, has
\* 1 <= Length <= maxSize.
C2_UpperBound ==
    \A i \in DOMAIN chunker :
        ret[i].kind = "chunk" =>
            /\ 1 <= ret[i].chunk.Length
            /\ ret[i].chunk.Length <= chunker[i].core.maxSize

\* a later chunk of exactly maxSize bytes that ends the input, cut from a
\* buffer that is larger than maxSize
C2_Witness ==
    /\ ret[1].kind = "chunk"
    /\ ret[1].chunk.Length = chunker[1].core.maxSize
    /\ ret[1].chunk.Offset > 0
    /\ ret[1].chunk.Offset + ret[1].chunk.Length = Len(input)
    /\ Len(chunker[1].buf) > chunker[1].core.maxSize

\* C3 (Lower bound): a returned chunk that does not end at the end of the
\* input has Length >= minSize.
C3_LowerBound ==
    \A i \in DOMAIN chunker :
        (/\ ret[i].kind = "chunk"
         /\ ret[i].chunk.Offset + ret[i].chunk.Length # Len(input))
        => ret[i].chunk.Length >= chunker[i].core.minSize

\* a later, non-final chunk one byte above minSize (> 1) has been returned
C3_Witness ==
    /\ ret[1].kind = "chunk"
    /\ ret[1].chunk.Offset > 0
    /\ ret[1].chunk.Offset + ret[1].chunk.Length < Len(input)
    /\ ret[1].chunk.Length = chunker[1].core.minSize + 1
    /\ chunker[1].core.minSize > 1

\* what the first two Next calls return for a small input, as C4 states it
SmallInputAnswer(i) ==
    /\ NextCalls(i) >= 1 =>
          /\ Len(hist[i]) = 1
          /\ hist[i][1].Offset = 0
          /\ hist[i][1].Length = Len(input)
    /\ NextCalls(i) = 1 => ret[i].kind = "chunk" /\ ret[i].chunk.Data = input
    /\ NextCalls(i) >= 2 => ret[i].kind = "eof"

\* C4 as stated (Small input): for every input shorter than minSize the first
\* Next returns one chunk with Offset 0 and Length len(input), the second io.EOF.
C4_SmallInputAny ==
    \A i \in DOMAIN chunker :
        Len(input) < chunker[i].core.minSize => SmallInputAnswer(i)

\* C4 as amended: for every non-empty input shorter than minSize the first
\* Next returns one chunk with Offset 0 and Length len(input) and the second
\* returns io.EOF; for the empty input the first Next already returns io.EOF.
C4_SmallInput ==
    \A i \in DOMAIN chunker :
        /\ (0 < Len(input) /\ Len(input) < chunker[i].core.minSize)
              => SmallInputAnswer(i)
        /\ (Len(input) = 0 /\ NextCalls(i) >= 1)
              => ret[i].kind = "eof" /\ hist[i] = <<>>

\* a one-byte input below minSize was returned whole and then io.EOF
C4_Witness ==
    /\ 0 < Len(input)
    /\ Len(input) < chunker[1].core.minSize
    /\ NextCalls(1) = 2
    /\ ret[1].kind = "eof"
    /\ Len(hist[1]) = 1

\* C5 (Determinism): two chunkers with the same configuration reading the
\* same input return the same (Offset, Length, Hash) chunk by chunk, and reach
\* io.EOF after the same number of chunks.
C5_Determinism ==
    \A i, j \in DOMAIN chunker :
        /\ \A k \in 1..Min(Len(hist[i]), Len(hist[j])) : hist[i][k] = hist[j][k]
        /\ eofs[i] > 0 => Len(hist[j]) <= Len(hist[i])

\* two chunkers whose sources fragment the input differently both finished a
\* stream of several chunks
C5_Witness ==
    /\ DOMAIN chunker = {1, 2}
    /\ source[1].frag # source[2].frag
    /\ eofs[1] > 0 /\ eofs[2] > 0
    /\ Len(hist[1]) >= 2
    /\ hist[1][1].Hash # 0

\* C13 (End of stream): Next returns io.EOF only when the source has reported
\* io.EOF and the chunks returned before cover the whole input (for the empty
\* input the first Next returns io.EOF), and once Next has returned io.EOF
\* every later Next returns io.EOF and no chunk.
C13_EndOfStream ==
    \A i \in DOMAIN chunker :
        /\ ret[i].kind = "eof" =>
              /\ source[i].sawEOF
              /\ source[i].pos = Len(input)
              /\ SumLengths(hist[i]) = Len(input)
        /\ (Len(input) = 0 /\ NextCalls(i) >= 1) => ret[i].kind = "eof"
        /\ eofs[i] >= 1 => ret[i].kind = "eof"

\* after a stream of several chunks Next has returned io.EOF twice in a row
C13_Witness ==
    /\ eofs[1] = 2
    /\ Len(hist[1]) >= 2
    /\ ret[1].kind = "eof"
    /\ source[1].sawEOF

----------------------------------------------------------------------------
(* Properties of Chunker.Next on a failing source *)

\* C11 (I/O error leaves the chunker retryable): a Next during which the source
\* fails with an error that is not an end-of-source error returns that error
\* and no chunk, and over the whole run, retries included, the chunks keep the
\* partition property: contiguous offsets, Data = input[Offset:Offset+Length],
\* Lengths summing to len(input) at io.EOF.
C11_RetryPartition ==
    \A i \in DOMAIN chunker :
        source[i].failErr = ErrIO =>
            /\ ret[i].srcErr = ErrIO =>
                  ret[i].kind = "err" /\ ret[i].err = ErrIO /\ ret[i].chunk = NoChunk
            /\ Contiguous(hist[i])
            /\ ret[i].kind = "chunk" =>
                  ret[i].chunk.Data = InputSlice(ret[i].chunk.Offset, ret[i].chunk.Length)
            /\ ret[i].kind = "eof" => SumLengths(hist[i]) = Len(input)

\* C12 (I/O errors are never swallowed): a Next during which the source returned
\* an error other than io.EOF returns exactly that error, and no chunk.
C12_ErrorsReturned ==
    \A i \in DOMAIN chunker :
        ret[i].srcErr \notin {NoErr, EOF} =>
            /\ ret[i].kind = "err"
            /\ ret[i].err = ret[i].srcErr
            /\ ret[i].chunk = NoChunk

----------------------------------------------------------------------------
(* Properties of reuse *)

\* the reader as it was when it was bound
Rewind(src) ==
    NewReader(src.data, src.frag, src.eofWithData, src.fails, src.failAt, src.failErr)

RECURSIVE Alone(_, _, _)
\* what the first n Next calls of chunker c reading src return
Alone(c, src, n) ==
    IF n = 0 THEN <<>>
    ELSE LET r == ChunkerNext(c, src)
         IN <<[chunk |-> r.chunk, err |-> r.err, offset |-> r.c.offset]>>
            \o Alone(r.c, r.src, n - 1)

\* the Next calls of a newly constructed chunker with the options of chunker i,
\* reading the stream chunker i is bound to, as many as chunker i has answered
\* since it was bound
FreshRun(i) ==
    Alone(NewChunker(chunker[i].reader, opts[i]), Rewind(source[chunker[i].reader]),
          NextCalls(i))

\* what chunker i returned since it was bound is what the fresh chunker returns
SameAsFresh(i) ==
    LET a == FreshRun(i)
        n == Len(hist[i])
    IN /\ \A k \in 1..Len(a) :
             IF k <= n
             THEN /\ a[k].err = NoErr
                  /\ hist[i][k] = [Offset |-> a[k].chunk.Offset,
                                    Length |-> a[k].chunk.Length,
                                    Hash |-> a[k].chunk.Hash]
             ELSE a[k].err = EOF
       /\ Len(a) > 0 =>
             /\ ret[i].chunk = a[Len(a)].chunk
             /\ ret[i].err = a[Len(a)].err
             /\ chunker[i].offset = a[Len(a)].offset

\* C14 (Reset equals fresh construction): after Reset(r), from whatever state,
\* Offset() is 0 and the Next calls return the (Offset, Length, Hash, Data) and
\* the io.EOF that a newly constructed Chunker with the same options returns
\* reading r.
C14_ResetIsFresh ==
    \A i \in DOMAIN chunker :
        resets[i] >= 1 =>
            /\ NextCalls(i) = 0 => chunker[i].offset = 0
            /\ SameAsFresh(i)

\* a chunker that was reset has chunked its new stream, of zero bytes only,
\* into several chunks up to io.EOF, while its buffer still holds a non-zero
\* byte of the earlier stream
C14_Witness ==
    /\ resets[1] >= 1
    /\ ret[1].kind = "eof"
    /\ Len(hist[1]) >= 2
    /\ \A k \in 1..Len(input) : input[k] = 0
    /\ \E k \in 1..Len(chunker[1].buf) : chunker[1].buf[k] # 0

\* C15 (Pool correctness): in every Get / Next... / Put cycle the chunks a
\* pooled chunker returns are those a newly constructed Chunker with the
\* pool's options returns reading the cycle's source.
C15_PoolIsFresh ==
    \A g \in DOMAIN held :
        held[g] # 0 =>
            /\ opts[held[g]] = pool.opts
            /\ SameAsFresh(held[g])

\* a recycled chunker, whose buffer still holds a byte of an earlier cycle, has
\* chunked its source of zero bytes to the end
C15_Witness ==
    \E g \in DOMAIN held :
        /\ held[g] # 0
        /\ Len(chunker) = 1
        /\ ret[held[g]].kind = "eof"
        /\ hist[held[g]] # <<>>
        /\ \A k \in 1..Len(source[g].data) : source[g].data[k] = 0
        /\ \E k \in 1..Len(chunker[1].buf) : chunker[1].buf[k] # 0

\* C16 (Exclusive ownership): no chunker is held by two goroutines at once,
\* and a chunker that is held is not in the pool.
C16_ExclusiveOwnership ==
    \A g1 \in DOMAIN held :
        held[g1] # 0 =>
            /\ held[g1] \notin pool.free
            /\ \A g2 \in DOMAIN held \ {g1} : held[g2] # held[g1]

\* both goroutines hold a chunker, and one of them has just got a recycled
\* one, whose buffer holds bytes of an earlier cycle
C16_Witness ==
    /\ \A g \in DOMAIN held : held[g] # 0
    /\ \E g \in DOMAIN held :
          /\ ret[held[g]].kind = "get"
          /\ \E k \in 1..Len(chunker[held[g]].buf) : chunker[held[g]].buf[k] # 0

\* C17 (Release drops the source): every chunker in the pool has a nil reader.
C17_PooledReaderNil ==
    \A i \in pool.free : chunker[i].reader = Nil

\* a chunker that was bound to a reader and used is in the pool
C17_Witness ==
    \E i \in pool.free : chunker[i].offset > 0

\* C18 (Acquire never waits): a goroutine that holds no chunker can complete
\* Get in every state of the pool, whatever the other goroutines hold.
C18_GetNeverWaits ==
    \A g \in DOMAIN held :
        held[g] = 0 => ENABLED (\E r \in PoolReaders : PoolGet(g, r))

\* the pool is empty while the other goroutine holds a chunker
C18_Witness ==
    /\ pool.free = {}
    /\ \E g1, g2 \in DOMAIN held : held[g1] = 0 /\ held[g2] # 0

EndOf(i, k) == IF k = 0 THEN 0 ELSE hist[i][k].Offset + hist[i][k].Length

\* the bytes of the stream of chunker i from the absolute offset p on
From(i, p) == Drop(source[i].data, p)

\* the numbers of chunks chunkers 1 and 2 returned after their k1-th and k2-th
Later(k1, k2) == <<Len(hist[1]) - k1, Len(hist[2]) - k2>>

\* C26 (Edit locality): when two runs with the same configuration have a
\* boundary at absolute offsets p1 and p2 and the bytes from p1 on in the
\* first stream equal the bytes from p2 on in the second, all later chunks
\* have the same Lengths and Hashes in both runs (and there are as many).
C26_EditLocality ==
    \A k1 \in 0..Len(hist[1]), k2 \in 0..Len(hist[2]) :
        From(1, EndOf(1, k1)) = From(2, EndOf(2, k2)) =>
            /\ \A j \in 1..Min(Later(k1, k2)[1], Later(k1, k2)[2]) :
                  /\ hist[1][k1 + j].Length = hist[2][k2 + j].Length
                  /\ hist[1][k1 + j].Hash = hist[2][k2 + j].Hash
            /\ eofs[2] >= 1 => Later(k1, k2)[1] = Later(k1, k2)[2]

\* both runs are finished; a boundary inside the first stream and a boundary
\* at another offset of the second are followed by the same bytes, which were
\* cut into two or more chunks with a non-zero hash
C26_Witness ==
    /\ eofs[2] >= 1
    /\ \E k1 \in 1..Len(hist[1]), k2 \in 0..Len(hist[2]) :
          /\ EndOf(1, k1) # EndOf(2, k2)
          /\ From(1, EndOf(1, k1)) = From(2, EndOf(2, k2))
          /\ Later(k1, k2)[1] >= 2
          /\ hist[1][k1 + 1].Hash # 0
          /\ source[1].data # source[2].data

----------------------------------------------------------------------------
(* Properties of construction *)

\* the value the options give field f: the one passed, else the default
Configured(o, f, default) == IF Has(o, f) THEN o[f] ELSE default

\* the configuration resulting from the options o satisfies
\* 0 < minSize < targetSize < maxSize, normalizationLevel <= 8, and a
\* bufferSize that is passed is > 0
ValidConfiguration(o) ==
    /\ 0 < Configured(o, "minSize", DefaultMinSize)
    /\ Configured(o, "minSize", DefaultMinSize)
          < Configured(o, "targetSize", DefaultTargetSize)
    /\ Configured(o, "targetSize", DefaultTargetSize)
          < Configured(o, "maxSize", DefaultMaxSize)
    /\ Configured(o, "normLevel", DefaultNormLevel) <= 8
    /\ Has(o, "bufferSize") => o.bufferSize > 0

\* the ChunkerCore of an instance a constructor returned, the pools' being
\* the one their Get constructs
CoreOf(name, instance) ==
    CASE name = "NewChunker" -> instance.core
      [] name = "NewChunkerCore" -> instance
      [] name = "NewChunkerPool" -> NewChunker(Nil, instance.opts).core
      [] name = "NewChunkerCorePool" -> NewChunkerCore(instance.opts)

\* C20 (Configuration invariant): a constructor returns an instance and no
\* error exactly when the configuration resulting from the options is valid,
\* otherwise an error and no instance; an instance that exists has
\* 0 < minSize < targetSize < maxSize.
C20_ConfigurationInvariant ==
    \A name \in DOMAIN made :
        LET m == made[name]
            o == opts[1]
        IN /\ (m.err = NoErr) <=> ValidConfiguration(o)
           /\ (m.instance # <<>>) <=> (m.err = NoErr)
           /\ m.instance # <<>> =>
                 LET c == CoreOf(name, m.instance[1])
                     target == Configured(o, "targetSize", DefaultTargetSize)
                 IN /\ 0 < c.minSize
                    /\ c.minSize < target
                    /\ target < c.maxSize
                    /\ c.minSize <= c.normSize
                    /\ c.normSize <= target

\* NewChunker returned an instance for options that leave minSize at its
\* default and pass a maxSize and a smaller buffer size
C20_Witness ==
    /\ "NewChunker" \in DOMAIN made
    /\ made["NewChunker"].instance # <<>>
    /\ ~Has(opts[1], "minSize")
    /\ Has(opts[1], "maxSize")
    /\ Has(opts[1], "bufferSize")
    /\ opts[1].bufferSize < opts[1].maxSize

\* the configuration the options o ask for: the values passed, else the defaults
Requested(o) ==
    [minSize |-> Configured(o, "minSize", DefaultMinSize),
     targetSize |-> Configured(o, "targetSize", DefaultTargetSize),
     maxSize |-> Configured(o, "maxSize", DefaultMaxSize),
     normLevel |-> Configured(o, "normLevel", DefaultNormLevel)]

\* the conditions of C21 as it states them, by the error kind of each
StatedCondition(o, kind) ==
    LET r == Requested(o)
    IN CASE kind = ErrInvalidMinSize -> r.minSize = 0
         [] kind = ErrTargetSizeTooSmall -> r.targetSize <= r.minSize
         [] kind = ErrMaxSizeTooSmall -> r.maxSize <= r.targetSize
         [] kind = ErrInvalidNormLevel -> r.normLevel > 8
         [] kind = ErrInvalidBufferSize -> Has(o, "bufferSize") /\ o.bufferSize <= 0

StatedKinds ==
    {ErrInvalidMinSize, ErrTargetSizeTooSmall, ErrMaxSizeTooSmall, ErrInvalidNormLevel,
     ErrInvalidBufferSize}

\* the conditions under which the code returns each of its error kinds
ErrorCondition(o, kind) ==
    LET r == Requested(o)
    IN CASE kind = ErrInvalidMinSize -> r.minSize = 0
         [] kind = ErrInvalidTargetSize -> r.targetSize = 0
         [] kind = ErrTargetSizeTooSmall -> 0 < r.targetSize /\ r.targetSize <= r.minSize
         [] kind = ErrInvalidMaxSize -> r.maxSize = 0
         [] kind = ErrMaxSizeTooSmall -> 0 < r.maxSize /\ r.maxSize <= r.targetSize
         [] kind = ErrInvalidNormLevel -> r.normLevel > 8
         [] kind = ErrInvalidBufferSize -> Has(o, "bufferSize") /\ o.bufferSize <= 0

ErrorKinds == StatedKinds \cup {ErrInvalidTargetSize, ErrInvalidMaxSize}

\* the kinds an option returns for a value it rejects by itself
OptionKinds == ErrorKinds \ {ErrTargetSizeTooSmall, ErrMaxSizeTooSmall}

\* C21 as stated (Distinct configuration error kinds): construction fails with
\* the min-size-zero error when minSize is 0, with the target-not-greater error
\* whenever targetSize <= minSize, with the max-not-greater error whenever
\* maxSize <= targetSize, with the normalization-level error above level 8 and
\* with the buffer-size error for a non-positive explicit bufferSize (read for
\* the options that meet exactly one of the five conditions).
C21_FiveKinds ==
    \A name \in DOMAIN made :
        \A kind \in StatedKinds :
            (/\ StatedCondition(opts[1], kind)
             /\ \A other \in StatedKinds \ {kind} : ~StatedCondition(opts[1], other))
            => made[name].err = kind

\* C21 as amended: construction fails exactly when one of seven conditions
\* holds, and the error is the kind of a condition that holds: a passed
\* minSize, targetSize or maxSize of 0 gives its own zero-size error, the
\* target-not-greater error means 0 < targetSize <= minSize, the
\* max-not-greater error means 0 < maxSize <= targetSize, the level error means
\* level > 8, the buffer-size error means a non-positive explicit bufferSize;
\* the two ordering errors are returned only when no option value is rejected
\* by itself.
C21_SevenKinds ==
    \A name \in DOMAIN made :
        LET err == made[name].err
            o == opts[1]
        IN /\ err \in ErrorKinds \cup {NoErr}
           /\ (err = NoErr) <=> (\A kind \in ErrorKinds : ~ErrorCondition(o, kind))
           /\ err # NoErr => ErrorCondition(o, err)
           /\ err \notin OptionKinds \cup {NoErr} =>
                 \A kind \in OptionKinds : ~ErrorCondition(o, kind)

\* a construction that was passed a non-positive bufferSize before a
\* targetSize of 0 failed with the buffer-size error
C21_Witness ==
    /\ "NewChunkerCore" \in DOMAIN made
    /\ made["NewChunkerCore"].err = ErrInvalidBufferSize
    /\ Has(opts[1], "order")
    /\ Has(opts[1], "targetSize")
    /\ opts[1].targetSize = 0

\* the constructors whose instances are or construct a Chunker
ChunkerConstructors == {"NewChunker", "NewChunkerPool"}

\* the Chunker of an instance a constructor returned, the pool's being the one
\* its Get constructs
ChunkerOf(name, instance) ==
    IF name = "NewChunker" THEN instance ELSE NewChunker(Nil, instance.opts)

\* the sizes and the level the options ask for are valid
ValidSizes(o) ==
    LET r == Requested(o)
    IN 0 < r.minSize /\ r.minSize < r.targetSize /\ r.targetSize < r.maxSize
       /\ r.normLevel <= 8

\* C22 (Buffer floor): with an explicit positive bufferSize smaller than
\* maxSize (and valid sizes) construction succeeds and the buffer capacity is
\* exactly maxSize; every constructed Chunker has a buffer capacity >= maxSize.
C22_BufferFloor ==
    \A name \in DOMAIN made \cap ChunkerConstructors :
        LET m == made[name]
            o == opts[1]
        IN /\ (/\ ValidSizes(o)
               /\ Has(o, "bufferSize")
               /\ 0 < o.bufferSize
               /\ o.bufferSize < Requested(o).maxSize)
              => /\ m.err = NoErr
                 /\ m.instance # <<>>
                 /\ Len(ChunkerOf(name, m.instance[1]).buf) = Requested(o).maxSize
           /\ m.instance # <<>> =>
                 LET c == ChunkerOf(name, m.instance[1])
                 IN /\ Len(c.buf) >= c.core.maxSize
                    /\ c.buflen = Len(c.buf)
                    /\ c.core.maxSize = Requested(o).maxSize

\* NewChunker returned a Chunker for a bufferSize between 1 and a maxSize that
\* was passed
C22_Witness ==
    /\ "NewChunker" \in DOMAIN made
    /\ made["NewChunker"].instance # <<>>
    /\ Has(opts[1], "bufferSize")
    /\ Has(opts[1], "maxSize")
    /\ 1 < opts[1].bufferSize
    /\ opts[1].bufferSize < opts[1].maxSize
    /\ Len(made["NewChunker"].instance[1].buf) = opts[1].maxSize

----------------------------------------------------------------------------
(* Properties of the derived masks and threshold *)

\* the constructors whose instances are or construct a ChunkerCore from the
\* options alone
CoreConstructors == {"NewChunkerCore", "NewChunkerCorePool"}

\* the cores that have been constructed
Cores ==
    {CoreOf(name, made[name].instance[1]) :
        name \in {n \in DOMAIN made \cap CoreConstructors : made[n].instance # <<>>}}

\* the width of the normalized region of core c
Width(c) == c.normSize - c.minSize

\* the width of the normalized region that computeMasks derives for the sizes
\* of the options o at level l
WidthAt(o, l) ==
    computeMasks([Requested(o) EXCEPT !.normLevel = l]).normSize - Requested(o).minSize

RECURSIVE PopCount(_)
\* the number of set bits of x
PopCount(x) == IF x = 0 THEN 0 ELSE (x % 2) + PopCount(x \div 2)

\* C24 (Normalization level 0 disables normalization): with
\* normalizationLevel = 0 the normalized region has zero width
\* (normalizedThreshold = minSize), so that no byte is tested against the
\* small mask.
C24_LevelZeroNoRegion ==
    \A c \in Cores : c.normLevel = 0 => c.normSize = c.minSize

\* C25 (Higher levels, larger region): for fixed minSize and targetSize and
\* levels a < b in 0..8, the width normalizedThreshold - minSize at level b is
\* at least the width at level a.
C25_WidthGrows ==
    \A c \in Cores :
        \A a \in 0..MaxLevel :
            a < c.normLevel => WidthAt(opts[1], a) <= Width(c)

\* C29 (Mask derivation): for every valid configuration bits is
\* floor(log2(targetSize)), maskLarge = 2^bits - 1, maskSmall = 2^(bits-1) - 1,
\* maskSmall has one set bit fewer than maskLarge and its set bits are among
\* maskLarge's, and bits is never 0.
C29_MaskDerivation ==
    \A c \in Cores :
        LET target == Requested(opts[1]).targetSize
        IN /\ Pow2(c.bits) <= target
           /\ target < Pow2(c.bits + 1)
           /\ c.bits >= 1
           /\ c.maskL = Pow2(c.bits) - 1
           /\ c.maskS = Pow2(c.bits - 1) - 1
           /\ PopCount(c.maskS) = PopCount(c.maskL) - 1
           /\ BitAnd(c.maskS, c.maskL) = c.maskS

\* a core was constructed for a large targetSize that is not a power of two
C29_Witness ==
    \E c \in Cores :
        /\ c.bits = 8
        /\ Requested(opts[1]).targetSize > Pow2(8)
        /\ PopCount(c.maskL) = 8

\* C30 (Threshold derivation): for every valid configuration
\* normalizedThreshold = minSize + floor((targetSize - minSize) / 2^level),
\* computed without unsigned wrap-around, and
\* minSize <= normalizedThreshold <= targetSize < maxSize.
C30_ThresholdDerivation ==
    \A c \in Cores :
        LET r == Requested(opts[1])
        IN /\ r.targetSize - r.minSize >= 0
           /\ r.minSize + (r.targetSize - r.minSize) \div Pow2(r.normLevel) < SizeMod
           /\ c.normSize = r.minSize + (r.targetSize - r.minSize) \div Pow2(r.normLevel)
           /\ c.minSize <= c.normSize
           /\ c.normSize <= r.targetSize
           /\ r.targetSize < c.maxSize

\* a core was constructed at the highest level for sizes whose difference the
\* shift does not clear, and the threshold lies strictly between them
C30_Witness ==
    \E c \in Cores :
        /\ c.normLevel = MaxLevel
        /\ c.minSize > 1
        /\ c.minSize < c.normSize
        /\ c.normSize < Requested(opts[1]).targetSize

----------------------------------------------------------------------------
(* Properties of ChunkerCore.FindBoundary and Reset *)

IsScan(call) == call.op = "FindBoundary"

\* the last two operations on core were FindBoundary(W1), FindBoundary(W2)
TwoCalls == IsScan(prevCall) /\ IsScan(lastCall)

\* one FindBoundary call on W1 + W2 from the state the two calls started in
OneCall == FindBoundary(prevCall.pre, prevCall.data \o lastCall.data)

\* the single call finds its boundary exactly at the end of W1
BoundaryAtSplit ==
    OneCall.found /\ OneCall.boundary - prevCall.pre.position = Len(prevCall.data)

\* the two calls end in the state and report the results of the single call
SameAsOneCall ==
    /\ core = OneCall.core
    /\ lastCall.boundary = OneCall.boundary
    /\ lastCall.hash = OneCall.hash
    /\ lastCall.found = OneCall.found

\* C6 as stated (Resumability): FindBoundary on W1 then W2 ends in the same
\* (fingerprint, position) and reports the same (boundary, hash, found) as one
\* call on W1 + W2, for every split where no boundary falls at the end of W1.
C6_ResumableAnySplit == (TwoCalls /\ ~BoundaryAtSplit) => SameAsOneCall

\* C6 as amended: the same holds for every split into W1 and a non-empty W2
\* for which the call on W1 returns found=false (no boundary falls inside W1
\* or at its end).
C6_Resumable ==
    (TwoCalls /\ ~prevCall.found /\ lastCall.data # <<>>) => SameAsOneCall

\* a carried-over scanner was fed W1 (exhausted) and then W2, which found a
\* boundary after hashing bytes of both
C6_Witness ==
    /\ TwoCalls
    /\ prevCall.pre.position > 0
    /\ ~prevCall.found
    /\ Len(prevCall.data) > 0
    /\ lastCall.pre.fingerprint # 0
    /\ lastCall.found
    /\ Len(lastCall.data) > 1

RECURSIVE RefScan(_, _, _, _, _)
\* The reference scanner: one byte at a time from the state (fp, pos), k bytes
\* of data consumed. It forces a cut when pos has reached maxSize, stops when
\* the window is used up, skips a byte while pos < minSize, and otherwise
\* hashes the byte and tests it with maskS below normSize, maskL from there on.
\* It reports the bytes it consumed of the window; a cut leaves the fingerprint
\* and position 0 (C9).
RefScan(c, data, k, fp, pos) ==
    IF pos >= c.maxSize
    THEN [found |-> TRUE, consumed |-> k, hash |-> fp, fingerprint |-> fp, position |-> 0]
    ELSE IF k = Len(data)
    THEN [found |-> FALSE, consumed |-> k, hash |-> fp, fingerprint |-> fp,
          position |-> pos]
    ELSE IF pos < c.minSize
    THEN RefScan(c, data, k + 1, fp, pos + 1)
    ELSE LET fp2 == GearStep(c.table, fp, data[k + 1])
             mask == IF pos < c.normSize THEN c.maskS ELSE c.maskL
         IN IF BitAnd(fp2, mask) = 0
            THEN [found |-> TRUE, consumed |-> k + 1, hash |-> fp2, fingerprint |-> fp2,
                  position |-> 0]
            ELSE RefScan(c, data, k + 1, fp2, pos + 1)

\* the reference scanner on the window and the state of the last call
Reference ==
    RefScan(lastCall.pre, lastCall.data, 0, lastCall.pre.fingerprint,
            lastCall.pre.position)

\* the last call found or did not find a boundary as the reference does, with
\* the same hash, and left the same fingerprint and position
SameCutAsReference ==
    /\ lastCall.found = Reference.found
    /\ lastCall.hash = Reference.hash
    /\ core.fingerprint = Reference.fingerprint
    /\ core.position = Reference.position

\* C27 (FindBoundary agrees with the byte-at-a-time regime machine): for every
\* scanner state and window, the result (offset in the window, hash, found)
\* and the final state of FindBoundary are those of the reference scanner.
C27_AgreesWithReference ==
    IsScan(lastCall) =>
        /\ SameCutAsReference
        /\ lastCall.boundary = Reference.consumed

\* the byte at which the last call cut matched the mask of its position
MaskMatch ==
    LET c == lastCall.pre
    IN BitAnd(lastCall.hash,
              IF lastCall.boundary - 1 < c.normSize THEN c.maskS ELSE c.maskL) = 0

\* C28 (Hard limit): a call whose window takes the bytes scanned for the chunk
\* to maxSize or beyond returns found=true, with the cut at chunk length
\* maxSize unless a mask matched before; from a reset scanner every window of
\* at least maxSize bytes gives found=true with minSize < boundary <= maxSize.
C28_HardLimit ==
    IsScan(lastCall) =>
        LET c == lastCall.pre
        IN /\ c.position + Len(lastCall.data) >= c.maxSize =>
                 /\ lastCall.found
                 /\ c.minSize < lastCall.boundary
                 /\ lastCall.boundary <= c.maxSize
           /\ lastCall.found => (MaskMatch \/ lastCall.boundary = c.maxSize)
           /\ (c.position = 0 /\ c.fingerprint = 0 /\ Len(lastCall.data) >= c.maxSize) =>
                 /\ lastCall.found
                 /\ c.minSize < lastCall.boundary
                 /\ lastCall.boundary <= Len(lastCall.data)

\* a reset scanner was handed a window of maxSize bytes or more, no byte
\* matched a mask, and the call cut at maxSize
C28_Witness ==
    /\ IsScan(lastCall)
    /\ lastCall.pre.position = 0
    /\ lastCall.pre.fingerprint = 0
    /\ Len(lastCall.data) >= lastCall.pre.maxSize
    /\ lastCall.found
    /\ lastCall.boundary = lastCall.pre.maxSize
    /\ ~MaskMatch

\* C7 (Boundary is an index into the window): when FindBoundary(window) returns
\* found=true, 0 < boundary <= len(window), also from a carried-over state.
C7_BoundaryInWindow ==
    (IsScan(lastCall) /\ lastCall.found) =>
        (0 < lastCall.boundary /\ lastCall.boundary <= Len(lastCall.data))

\* C8 (Exhausted window): when FindBoundary(window) returns found=false the
\* returned offset is len(window), the returned hash is the stored fingerprint
\* and the stored position has grown by len(window).
C8_Exhausted ==
    (IsScan(lastCall) /\ ~lastCall.found) =>
        /\ lastCall.boundary = Len(lastCall.data)
        /\ lastCall.hash = core.fingerprint
        /\ core.position = lastCall.pre.position + Len(lastCall.data)

\* C9 as stated (No auto-reset): after FindBoundary returned found=true the
\* fingerprint and the position are those at the boundary (the position at the
\* boundary is the chunk length the call returned).
C9_NothingReset ==
    (IsScan(lastCall) /\ lastCall.found) =>
        /\ core.fingerprint = lastCall.hash
        /\ core.position = lastCall.boundary

\* C9 as amended: a FindBoundary call that returns found=true leaves the
\* fingerprint as it was at the boundary (the returned hash) but sets the
\* position to 0; Reset sets both to 0.
C9_FingerprintKept ==
    /\ (IsScan(lastCall) /\ lastCall.found) =>
          core.fingerprint = lastCall.hash /\ core.position = 0
    /\ lastCall.op = "Reset" => core.fingerprint = 0 /\ core.position = 0

\* a boundary was found and the fingerprint it left is not 0
C9_Witness ==
    /\ IsScan(lastCall)
    /\ lastCall.found
    /\ lastCall.hash # 0
    /\ Len(lastCall.data) > 0

\* C10 (State after boundary or Reset): whenever FindBoundary has just returned
\* found=true, or Reset has just been called, fingerprint and position are 0.
C10_ZeroAfterBoundary ==
    (lastCall.op = "Reset" \/ (IsScan(lastCall) /\ lastCall.found)) =>
        core.fingerprint = 0 /\ core.position = 0

----------------------------------------------------------------------------
(* The configuration of an instance after construction *)

\* the fields of a ChunkerCore that the configuration determines
Frame(c) ==
    [minSize |-> c.minSize, normSize |-> c.normSize, maxSize |-> c.maxSize,
     maskS |-> c.maskS, maskL |-> c.maskL, table |-> c.table]

\* C31: whatever FindBoundary, ChunkerCore.Reset, Chunker.Next, Chunker.Reset,
\* Get and Put calls were made, every Chunker has the minSize, normalized
\* threshold, maxSize, masks, gear table and buffer capacity NewChunker gave it,
\* and every ChunkerCore has those NewChunkerCore gave it.
C31_ConfigurationImmutable ==
    /\ \A i \in DOMAIN chunker :
          LET fresh == NewChunker(Nil, opts[i])
          IN /\ Frame(chunker[i].core) = Frame(fresh.core)
             /\ Len(chunker[i].buf) = Len(fresh.buf)
    /\ \A k \in DOMAIN cores : Frame(cores[k]) = Frame(NewChunkerCore(corePool.opts))

\* a Chunker that was Reset by its caller is back in the pool, after the Get
\* of a second one that has returned a chunk and reached the end of its stream
C31_Witness ==
    \E i, j \in DOMAIN chunker :
        /\ resets[i] >= 1
        /\ i \in pool.free
        /\ j # i
        /\ held[1] = j
        /\ hist[j] # <<>>
        /\ eofs[j] >= 1

----------------------------------------------------------------------------
(* The scan inside Chunker.Next *)

\* what the Next call of chunker i is about to do: whether it gets as far as
\* FindBoundary, and the window, scanner and end-of-source flag it calls it with
Scanned(i) ==
    LET f == fillBuffer(chunker[i], source[chunker[i].reader])
    IN [called |-> f.err = NoErr /\ f.c.buflen # 0,
        window |-> SubSeq(f.c.buf, f.c.cursor + 1, f.c.buflen),
        core |-> f.c.core,
        eof |-> f.c.eof]

\* a step in which Next of chunker i returned a chunk
ReturnsChunk(i) == Len(hist'[i]) = Len(hist[i]) + 1

\* C32: whenever Next calls FindBoundary, the unconsumed window holds at least
\* maxSize bytes or the source has reported exhaustion; and when FindBoundary
\* reports found=false the source is exhausted and the chunk Next returns ends
\* the stream.
C32_NotFoundOnlyAtEnd ==
    [][\A i \in DOMAIN chunker :
          ReturnsChunk(i) =>
              LET s == Scanned(i)
                  fb == FindBoundary(s.core, s.window)
              IN /\ s.called
                 /\ Len(s.window) >= s.core.maxSize \/ s.eof
                 /\ ~fb.found =>
                       /\ s.eof
                       /\ ret'[i].chunk.Length = Len(s.window)
                       /\ ret'[i].chunk.Offset + ret'[i].chunk.Length = Len(input)]_vars

\* Next returned a second or later chunk on which the scanner finds no boundary
C32_Witness ==
    \E i \in DOMAIN chunker :
        /\ ret[i].kind = "chunk"
        /\ Len(hist[i]) >= 2
        /\ ~FindBoundary(chunker[i].core, ret[i].chunk.Data).found

----------------------------------------------------------------------------
(* The position of the scanner *)

\* C33: after a FindBoundary call the stored position is below maxSize; it is 0
\* when the call returned found=true and the position before the call plus
\* len(window) when it returned found=false. After every return of Next (a
\* chunk, io.EOF or an error) the scanner of the Chunker has fingerprint 0 and
\* position 0.
C33_PositionInvariant ==
    /\ lastCall.op = "FindBoundary" =>
          /\ core.position < core.maxSize
          /\ lastCall.found => core.position = 0
          /\ ~lastCall.found => core.position = lastCall.pre.position + Len(lastCall.data)
    /\ \A i \in DOMAIN chunker :
          ret[i].kind \in {"chunk", "eof", "err"} =>
              /\ chunker[i].core.fingerprint = 0
              /\ chunker[i].core.position = 0

\* Next returned chunks with a hash other than 0 and then io.EOF, and the last
\* FindBoundary call went on from a position above 0 through a window that
\* holds bytes, without a boundary
C33_Witness ==
    /\ lastCall.op = "FindBoundary"
    /\ ~lastCall.found
    /\ lastCall.pre.position > 0
    /\ Len(lastCall.data) > 0
    /\ ret[1].kind = "eof"
    /\ \E k \in DOMAIN hist[1] : hist[1][k].Hash # 0

----------------------------------------------------------------------------
(* The buffer of a Chunker between calls *)

\* the bytes chunker i has pulled from its source and not yet emitted
Pending(i) ==
    LET src == source[chunker[i].reader]
    IN SubSeq(src.data, chunker[i].offset + 1, src.pos)

\* C34: between calls (after construction, after a Next that returned a chunk,
\* io.EOF or an error) 0 <= cursor <= len(buf) <= cap(buf), and
\* buf[cursor:len(buf)] holds exactly the bytes pulled from the source and not
\* yet emitted, which start at Offset().
C34_BufferWindow ==
    \A i \in DOMAIN chunker :
        /\ 0 <= chunker[i].cursor
        /\ chunker[i].cursor <= chunker[i].buflen
        /\ chunker[i].buflen <= Len(chunker[i].buf)
        /\ SubSeq(chunker[i].buf, chunker[i].cursor + 1, chunker[i].buflen) = Pending(i)

----------------------------------------------------------------------------
(* Reads of the source *)

\* the reader chunker i is bound to
ReaderOf(i) == chunker[i].reader

\* a step in which Next of chunker i was called
NextCalled(i) ==
    /\ resets'[i] = resets[i]
    /\ \/ ret'[i] # ret[i]
       \/ hist'[i] # hist[i]
       \/ eofs'[i] # eofs[i]

\* a step in which a Read was issued on the source of chunker i
ReadIssued(i) == source'[ReaderOf(i)].nreads # source[ReaderOf(i)].nreads

\* C35 as stated: once a Read of the source has returned io.EOF, no Next call
\* issues another Read on it.
C35_NoReadAfterSourceEOF ==
    [][\A i \in DOMAIN chunker :
          NextCalled(i) /\ source[ReaderOf(i)].sawEOF => ~ReadIssued(i)]_vars

\* C35 (amended): a Next call whose io.ReadFull ends with io.EOF or
\* io.ErrUnexpectedEOF records the end of the source, and once it is recorded,
\* and so after Next returned io.EOF, no Next call touches the source, until
\* Reset rebinds the chunker.
C35_NoReadAfterShortRead ==
    [][\A i \in DOMAIN chunker :
          NextCalled(i) =>
              /\ chunker[i].eof \/ eofs[i] >= 1 =>
                    source'[ReaderOf(i)] = source[ReaderOf(i)]
              /\ ReadIssued(i) =>
                    LET r == ReadFull(source[ReaderOf(i)], chunker[i].cursor)
                    IN r.err \in {EOF, ErrUnexpectedEOF} => chunker'[i].eof]_vars

\* a chunker that was rebound by Reset has read its new source to the end and
\* Next has returned io.EOF more than once
C35_Witness ==
    \E i \in DOMAIN chunker :
        /\ resets[i] >= 1
        /\ chunker[i].eof
        /\ source[ReaderOf(i)].nreads >= 2
        /\ hist[i] # <<>>
        /\ eofs[i] >= 2

----------------------------------------------------------------------------
(* Independence of read fragmentation and buffer size *)

\* C36: two chunkers with the same sizes, level and seed return the same
\* (Offset, Length, Hash) sequence for the same input, whatever pieces their
\* sources deliver it in and whatever bufferSize (at least maxSize after
\* validation) they were given.
C36_FragmentationIndependent ==
    /\ \A k \in DOMAIN hist[1] \cap DOMAIN hist[2] : hist[1][k] = hist[2][k]
    /\ eofs[1] >= 1 /\ eofs[2] >= 1 => hist[1] = hist[2]

\* both chunkers reached io.EOF after several chunks, with buffers of
\* different capacity and sources that deliver different pieces
C36_Witness ==
    /\ eofs[1] >= 1
    /\ eofs[2] >= 1
    /\ Len(hist[2]) >= 3
    /\ Len(chunker[1].buf) # Len(chunker[2].buf)
    /\ source[1].frag # source[2].frag
    /\ source[2].eofWithData

----------------------------------------------------------------------------
(* The streaming API against the low-level API *)

RECURSIVE FindLoop(_, _, _)
\* The loop of TestChunkerCoreFind over data held in memory: FindBoundary on
\* data[offset:], Reset after each boundary found, and the unmatched tail as
\* the final chunk. Returns the (Length, Hash) of the chunks.
FindLoop(c, data, offset) ==
    IF offset < Len(data)
    THEN LET fb == FindBoundary(c, Drop(data, offset))
         IN IF fb.found
            THEN <<[Length |-> fb.boundary, Hash |-> fb.hash]>>
                     \o FindLoop(CoreReset(fb.core), data, offset + fb.boundary)
            ELSE <<[Length |-> Len(data) - offset, Hash |-> fb.hash]>>
    ELSE <<>>

\* the (Length, Hash) of the chunks Next of chunker i returned
LengthsAndHashes(i) ==
    [k \in DOMAIN hist[i] |-> [Length |-> hist[i][k].Length, Hash |-> hist[i][k].Hash]]

\* C37: the lengths and hashes of the chunks Next returns are those of the
\* FindBoundary loop of a ChunkerCore with the same options over the whole
\* input: at every point the chunks returned so far are the first of the
\* loop's, and at io.EOF they are all of them.
C37_StreamingAgreesWithCore ==
    \A i \in DOMAIN chunker :
        LET low == FindLoop(NewChunkerCore(opts[i]), input, 0)
            got == LengthsAndHashes(i)
        IN /\ Len(got) <= Len(low)
           /\ got = Take(low, Len(got))
           /\ eofs[i] >= 1 => got = low

\* Next returned io.EOF after three or more chunks, the last one shorter than
\* minSize and so the unmatched tail of the loop
C37_Witness ==
    \E i \in DOMAIN chunker :
        /\ eofs[i] >= 1
        /\ Len(hist[i]) >= 3
        /\ hist[i][Len(hist[i])].Length < opts[i].minSize
        /\ \E k \in DOMAIN hist[i] : hist[i][k].Hash # 0

----------------------------------------------------------------------------
(* The hash that is reported *)

RECURSIVE GearHash(_, _, _)
\* the Gear hash of bytes, continued from fp
GearHash(table, fp, bytes) ==
    IF bytes = <<>> THEN fp
    ELSE GearHash(table, GearStep(table, fp, Head(bytes)), Tail(bytes))

\* the Gear hash, started from 0, of the bytes of a chunk at indices
\* minSize .. Length-1
HashOfChunk(c, bytes) == GearHash(c.table, 0, Drop(bytes, Min(c.minSize, Len(bytes))))

\* C38: the Hash of every chunk Next returns is the Gear hash, started from 0,
\* of the chunk's bytes at indices minSize .. Length-1 (0 when there are none,
\* the last byte of a chunk cut at maxSize included); so is the hash
\* FindBoundary returns from a reset scanner, for the bytes of the window up
\* to the cut, or all of them when no boundary is found.
C38_ReportedHash ==
    /\ \A i \in DOMAIN chunker :
          ret[i].kind = "chunk" =>
              ret[i].chunk.Hash = HashOfChunk(chunker[i].core, ret[i].chunk.Data)
    /\ \A i \in DOMAIN chunker :
          ret[i].kind = "none" =>
              \A n \in 0..Len(input) :
                  LET fb == FindBoundary(core, Take(input, n))
                  IN fb.hash = HashOfChunk(core, Take(input, fb.boundary))

\* Next returned a second or later chunk that was cut at maxSize with no mask
\* match on its last byte, and its hash is not 0
C38_Witness ==
    \E i \in DOMAIN chunker :
        /\ ret[i].kind = "chunk"
        /\ Len(hist[i]) >= 2
        /\ ret[i].chunk.Length = chunker[i].core.maxSize
        /\ BitAnd(ret[i].chunk.Hash, chunker[i].core.maskL) # 0

----------------------------------------------------------------------------
(* Termination *)

\* C39: a caller that goes on calling Next on a source that does not fail gets
\* io.EOF after finitely many calls; every Next that returns a chunk advances
\* Offset() by at least 1, no more than len(input) chunks are returned, and a
\* Next call returns a chunk or io.EOF.
C39_Termination ==
    /\ [][\A i \in DOMAIN chunker :
             ReturnsChunk(i) => chunker'[i].offset >= chunker[i].offset + 1]_vars
    /\ [](\A i \in DOMAIN chunker :
             /\ Len(hist[i]) <= Len(input)
             /\ ChunkerNext(chunker[i], source[ReaderOf(i)]).err \in {NoErr, EOF})
    /\ <>(\A i \in DOMAIN chunker : eofs[i] >= 1)

\* Next returned io.EOF after as many chunks as the input has bytes
C39_Witness ==
    \E i \in DOMAIN chunker :
        /\ eofs[i] >= 1
        /\ Len(input) >= 3
        /\ Len(hist[i]) >= 2
        /\ chunker[i].offset = Len(input)
====
